---- MODULE Spec2Model ----
(***************************************************************************)
(* Portfolio engine of barter-rs (fork frostRed): a MetaPortfolio driving  *)
(* an InMemoryRepository with the DefaultAllocator and DefaultRisk.        *)
(*                                                                         *)
(* Amounts (f64 in the source) are integers here; the inputs are chosen so *)
(* that every division the model performs is exact.  Order quantities are  *)
(* kept in ten-thousandths, the resolution the allocator rounds to.        *)
(* A HashMap's iteration order is unspecified: wherever the source turns   *)
(* the positions of an instrument into a Vec, the model picks any order.   *)
(* The timestamps kept in Position.meta are not modelled, except           *)
(* meta.exit_balance.                                                      *)
(***************************************************************************)
EXTENDS Integers, Sequences, FiniteSets, TLC

VARIABLES
    repository,   \* the InMemoryRepository owned by the MetaPortfolio
    before,       \* the repository as it was when the last call started
    last,         \* the last call on the engine: operation, argument, result
    clock,        \* number of calls on the engine so far (the time of a fill)
    last_entry,   \* history: the balance around the latest successful entry fill
    redis,        \* the key space of a RedisRepository given the same PositionHandler calls
    stored,       \* history: per (instrument_id, signal_id), the position last set and not removed since
    engine_loop,  \* the event loop around the portfolio: signals handled, orders and exit signals awaiting their turn
    tasks         \* per engine sharing the backend: the update_from_fill call it is in, with its local variables

vars == <<repository, before, last, clock, last_entry, redis, stored, engine_loop, tasks>>

----------------------------------------------------------------------------
(* Bounds and input domains *)

\* The event loop before the first signal: nothing handled, nothing waiting.
EngineLoop_idle == [signals |-> 0, re_enter |-> FALSE, queue |-> <<>>]

MaxCalls == 3

EngineId == "engine_1"
EngineIds == {"engine_1", "engine_2"}
Exchange == "binance"
Instruments == {"btc_usdt", "eth_usdt"}
SignalIds == {"sig_a", "sig_b"}
OrderSignalIds == {"sig_b"}
ExitSignalIds == {"sig_a"}
StartingCashes == {103, 400}
MarketLists == {{"btc_usdt", "eth_usdt"}, {"btc_usdt"}}
FillValues == {100, 200}
EntryShapes == {<<1, 100>>, <<2, 200>>}
FeesChoices == {[exchange |-> 1, slippage |-> 1, network |-> 1]}
Closes == {300}
Strengths == {1}

None == <<>>
Some(x) == <<x>>

Abs(x) == IF x < 0 THEN -x ELSE x

EntryDecisions == {"Long", "Short"}
ExitDecisions == {"CloseLong", "CloseShort"}

is_entry(decision) == decision \in {"Short", "Long"}
\* Mutant: a Short counts as an exit.
is_exit_or_short(decision) == decision \in {"CloseLong", "CloseShort", "Short"}

is_exit(decision) == decision \in {"CloseLong", "CloseShort"}

----------------------------------------------------------------------------
(* Identifiers *)

determine_instrument_id(engine_id, exchange, instrument) ==
    <<"instrument", engine_id, exchange, instrument>>

MarketId_new(exchange, instrument) == <<exchange, instrument>>

determine_exited_positions_id(engine_id) == <<"positions_exited", engine_id>>

balance_id(engine_id) == <<"balance", engine_id>>


----------------------------------------------------------------------------
(* Position: enter, update, exit *)

calculate_total_fees(fees) == fees.exchange + fees.slippage + fees.network


\* Mutant: every entered position is a Buy.
Position_enter_always_buy(engine_id, fill) ==
    [status |-> "Ok",
     position |->
       [instrument_id |-> determine_instrument_id(engine_id, fill.exchange, fill.instrument),
        signal_id |-> fill.signal_id,
        side |-> "Buy",
        quantity |-> fill.quantity,
        enter_fees_total |-> calculate_total_fees(fill.fees),
        enter_avg_price_gross |-> fill.fill_value_gross \div Abs(fill.quantity),
        enter_value_gross |-> fill.fill_value_gross,
        exit_fees_total |-> 0,
        exit_avg_price_gross |-> 0,
        exit_value_gross |-> 0,
        current_symbol_price |-> fill.fill_value_gross \div Abs(fill.quantity),
        current_value_gross |-> fill.fill_value_gross,
        unrealised_profit_loss |-> -(2 * calculate_total_fees(fill.fees)),
        realised_profit_loss |-> 0,
        exit_balance |-> None]]

Position_enter(engine_id, fill) ==
    IF is_exit(fill.decision)
    THEN [status |-> "CannotEnterPositionWithExitFill"]
    ELSE LET enter_fees_total == calculate_total_fees(fill.fees)
             enter_avg_price_gross == fill.fill_value_gross \div Abs(fill.quantity)
         IN [status |-> "Ok",
             position |->
               [instrument_id |-> determine_instrument_id(engine_id, fill.exchange, fill.instrument),
                signal_id |-> fill.signal_id,
                side |-> IF fill.quantity > 0 THEN "Buy" ELSE "Sell",
                quantity |-> fill.quantity,
                enter_fees_total |-> enter_fees_total,
                enter_avg_price_gross |-> enter_avg_price_gross,
                enter_value_gross |-> fill.fill_value_gross,
                exit_fees_total |-> 0,
                exit_avg_price_gross |-> 0,
                exit_value_gross |-> 0,
                current_symbol_price |-> enter_avg_price_gross,
                current_value_gross |-> fill.fill_value_gross,
                unrealised_profit_loss |-> -(2 * enter_fees_total),
                realised_profit_loss |-> 0,
                exit_balance |-> None]]

calculate_unrealised_profit_loss(position) ==
    IF position.side = "Buy"
    THEN position.current_value_gross - position.enter_value_gross
            - 2 * position.enter_fees_total
    ELSE position.enter_value_gross - position.current_value_gross
            - 2 * position.enter_fees_total

calculate_realised_profit_loss(position) ==
    LET total_fees == position.enter_fees_total + position.exit_fees_total
    IN IF position.side = "Buy"
       THEN position.exit_value_gross - position.enter_value_gross - total_fees
       ELSE position.enter_value_gross - position.exit_value_gross - total_fees

\* The price a market event carries: Trade.price or Candle.close, else none.
market_price(market) ==
    IF market.kind \in {"Trade", "Candle"} THEN Some(market.price) ELSE None

Position_update(position, market) ==
    IF market_price(market) = None
    THEN [position |-> position, update |-> None]
    ELSE LET close == market_price(market)[1]
             p1 == [position EXCEPT !.current_symbol_price = close,
                                    !.current_value_gross = Abs(position.quantity) * close]
             p2 == [p1 EXCEPT !.unrealised_profit_loss = calculate_unrealised_profit_loss(p1)]
         IN [position |-> p2,
             update |-> Some([instrument_id |-> p2.instrument_id,
                              signal_id |-> p2.signal_id,
                              current_symbol_price |-> p2.current_symbol_price,
                              current_value_gross |-> p2.current_value_gross,
                              unrealised_profit_loss |-> p2.unrealised_profit_loss])]

Position_exit(position, balance, fill) ==
    IF is_entry(fill.decision)
    THEN [status |-> "CannotExitPositionWithEntryFill"]
    ELSE LET p1 == [position EXCEPT !.exit_fees_total = calculate_total_fees(fill.fees),
                                    !.exit_value_gross = fill.fill_value_gross,
                                    !.exit_avg_price_gross =
                                        fill.fill_value_gross \div Abs(fill.quantity)]
             p2 == [p1 EXCEPT !.realised_profit_loss = calculate_realised_profit_loss(p1),
                              !.exit_balance = Some(balance)]
         IN [status |-> "Ok", position |-> p2]

determine_exit_decision(position) ==
    IF position.side = "Buy" THEN "CloseLong" ELSE "CloseShort"

----------------------------------------------------------------------------
(* InMemoryRepository: HashMaps are functions on the set of keys present *)

MapPut(m, k, v) == [x \in (DOMAIN m) \cup {k} |-> IF x = k THEN v ELSE m[x]]

MapRemove(m, k) == [x \in (DOMAIN m) \ {k} |-> m[x]]

\* Every Vec that collecting the values of a HashMap can give.
ValuesInAnyOrder(m) ==
    LET n == Cardinality(DOMAIN m)
        orders == {ks \in [1..n -> DOMAIN m] :
                     \A i, j \in 1..n : ks[i] = ks[j] => i = j}
    IN {[i \in 1..n |-> m[ks[i]]] : ks \in orders}

InMemoryRepository_new ==
    [open_positions |-> <<>>,
     closed_positions |-> <<>>,
     current_balances |-> <<>>,
     statistics |-> <<>>]

\* Mutant: the position replaces all the positions of its instrument.
set_open_position_replaces_instrument(repo, position) ==
    [repo EXCEPT !.open_positions =
        MapPut(@, position.instrument_id, MapPut(<<>>, position.signal_id, position))]

set_open_position(repo, position) ==
    LET instrument_id == position.instrument_id
        signal_id == position.signal_id
    IN IF instrument_id \in DOMAIN repo.open_positions
       THEN [repo EXCEPT !.open_positions =
                MapPut(@, instrument_id, MapPut(@[instrument_id], signal_id, position))]
       ELSE [repo EXCEPT !.open_positions =
                MapPut(@, instrument_id, MapPut(<<>>, signal_id, position))]

\* The set of Vecs the call can return (HashMap::values order).
get_open_instrument_positions(repo, instrument_id) ==
    IF instrument_id \in DOMAIN repo.open_positions
    THEN ValuesInAnyOrder(repo.open_positions[instrument_id])
    ELSE {<<>>}

\* markets: a Vec of Market { exchange, instrument }.  The set of Vecs the
\* call can return: per market in turn, the positions of its instrument in any
\* order.
RECURSIVE get_open_markets_positions(_, _, _)
get_open_markets_positions(repo, engine_id, markets) ==
    IF markets = <<>> THEN {<<>>}
    ELSE LET instrument_id ==
                 determine_instrument_id(engine_id, markets[1].exchange, markets[1].instrument)
             p == IF instrument_id \in DOMAIN repo.open_positions
                  THEN ValuesInAnyOrder(repo.open_positions[instrument_id])
                  ELSE {<<>>}
         IN {head \o rest : head \in p,
                             rest \in get_open_markets_positions(repo, engine_id, Tail(markets))}

\* Mutant: the position is found without looking at the signal_id.
get_open_position_any_signal(repo, instrument_id, signal_id) ==
    IF /\ instrument_id \in DOMAIN repo.open_positions
       /\ DOMAIN repo.open_positions[instrument_id] # {}
    THEN Some(repo.open_positions[instrument_id][
                 CHOOSE k \in DOMAIN repo.open_positions[instrument_id] : TRUE])
    ELSE None

get_open_position(repo, instrument_id, signal_id) ==
    IF /\ instrument_id \in DOMAIN repo.open_positions
       /\ signal_id \in DOMAIN repo.open_positions[instrument_id]
    THEN Some(repo.open_positions[instrument_id][signal_id])
    ELSE None

\* Removes the positions of the instrument; the caller receives them as one of
\* the Vecs get_open_instrument_positions could have returned just before.
remove_instrument_positions(repo, instrument_id) ==
    [repo EXCEPT !.open_positions = MapRemove(@, instrument_id)]

set_exited_position(repo, engine_id, position) ==
    LET exited_positions_key == determine_exited_positions_id(engine_id)
    IN IF exited_positions_key \notin DOMAIN repo.closed_positions
       THEN [repo EXCEPT !.closed_positions = MapPut(@, exited_positions_key, <<position>>)]
       ELSE [repo EXCEPT !.closed_positions =
                MapPut(@, exited_positions_key, Append(@[exited_positions_key], position))]

get_exited_positions(repo, engine_id) ==
    IF determine_exited_positions_id(engine_id) \in DOMAIN repo.closed_positions
    THEN repo.closed_positions[determine_exited_positions_id(engine_id)]
    ELSE <<>>

set_balance(repo, engine_id, balance) ==
    [repo EXCEPT !.current_balances = MapPut(@, balance_id(engine_id), balance)]

get_balance(repo, engine_id) ==
    IF balance_id(engine_id) \in DOMAIN repo.current_balances
    THEN [status |-> "Ok", balance |-> repo.current_balances[balance_id(engine_id)]]
    ELSE [status |-> "ExpectedDataNotPresentError"]

set_statistics(repo, market_id, statistic) ==
    [repo EXCEPT !.statistics = MapPut(@, market_id, statistic)]

get_statistics(repo, market_id) ==
    IF market_id \in DOMAIN repo.statistics
    THEN [status |-> "Ok", statistic |-> repo.statistics[market_id]]
    ELSE [status |-> "ExpectedDataNotPresentError"]

\* The opaque statistic: the exited positions it has been updated with.
Statistic_init == [count |-> 0, total_profit_loss |-> 0]

Statistic_update(stats, position) ==
    [count |-> stats.count + 1,
     total_profit_loss |-> stats.total_profit_loss + position.realised_profit_loss]

\* The set of Vecs the call can return: the instruments in any order, the
\* positions of one instrument next to each other in any order.
get_all_open_positions(repo) ==
    LET keys == {<<i, k>> : i \in DOMAIN repo.open_positions, k \in SignalIds}
        present == {ik \in keys : ik[2] \in DOMAIN repo.open_positions[ik[1]]}
        n == Cardinality(present)
        orders == {ks \in [1..n -> present] :
                     /\ \A a, b \in 1..n : ks[a] = ks[b] => a = b
                     /\ \A a, b, c \in 1..n :
                           (a < b /\ b < c /\ ks[a][1] = ks[c][1]) => ks[b][1] = ks[a][1]}
    IN {[j \in 1..n |-> repo.open_positions[ks[j][1]][ks[j][2]]] : ks \in orders}

\* Mutant: an unknown key is not an error.
remove_position_unknown_ok(repo, instrument_id, signal_id) ==
    IF /\ instrument_id \in DOMAIN repo.open_positions
       /\ signal_id \in DOMAIN repo.open_positions[instrument_id]
    THEN [repo |-> [repo EXCEPT !.open_positions =
                       MapPut(@, instrument_id, MapRemove(@[instrument_id], signal_id))],
          status |-> "Ok",
          out |-> Some(repo.open_positions[instrument_id][signal_id])]
    ELSE [repo |-> repo, status |-> "Ok", out |-> None]

remove_position(repo, instrument_id, signal_id) ==
    IF /\ instrument_id \in DOMAIN repo.open_positions
       /\ signal_id \in DOMAIN repo.open_positions[instrument_id]
    THEN [repo |-> [repo EXCEPT !.open_positions =
                       MapPut(@, instrument_id, MapRemove(@[instrument_id], signal_id))],
          status |-> "Ok",
          out |-> Some(repo.open_positions[instrument_id][signal_id])]
    ELSE [repo |-> repo, status |-> "DeleteError", out |-> None]

----------------------------------------------------------------------------
(* RedisRepository: the key space is a function from keys to values.  A key  *)
(* is the sequence of the parts its string is made of with "_" between them. *)

PositionFields ==
    <<"instrument_id", "signal_id", "side", "quantity", "enter_fees_total",
      "enter_avg_price_gross", "enter_value_gross", "exit_fees_total",
      "exit_avg_price_gross", "exit_value_gross", "current_symbol_price",
      "current_value_gross", "unrealised_profit_loss", "realised_profit_loss",
      "exit_balance">>

\* serde_json::to_string(&position): the fields in declaration order.
Position_to_string(position) ==
    [j \in 1..Len(PositionFields) |-> <<PositionFields[j], position[PositionFields[j]]>>]

\* serde_json::from_str::<Position>: a record from the named fields.
Position_from_str(position_value) ==
    [f \in {position_value[j][1] : j \in 1..Len(position_value)} |->
        position_value[CHOOSE j \in 1..Len(position_value) : position_value[j][1] = f][2]]

\* format!("{}_{}", position.instrument_id, position.signal_id)
position_key(instrument_id, signal_id) == Append(instrument_id, signal_id)

\* The fixed pattern "instrument_" of get_all_open_positions.
AllInstrumentsPattern == <<"instrument">>

\* Redis glob matching, part by part: "*" matches any run of parts, any other
\* part matches itself only.
RECURSIVE glob_match(_, _)
glob_match(pattern, key) ==
    IF pattern = <<>> THEN key = <<>>
    ELSE IF pattern[1] = "*"
         THEN \/ glob_match(Tail(pattern), key)
              \/ (key # <<>> /\ glob_match(pattern, Tail(key)))
         ELSE key # <<>> /\ key[1] = pattern[1] /\ glob_match(Tail(pattern), Tail(key))

\* KEYS pattern
redis_keys(store, pattern) == {k \in DOMAIN store : glob_match(pattern, k)}

\* let keys = conn.keys(pattern); for k in keys { get(k), from_str, push }:
\* the set of Vecs the scan can return.
scan_positions(store, pattern) ==
    LET keys == redis_keys(store, pattern)
    IN {[j \in 1..Len(ks) |-> Position_from_str(store[ks[j]].data)] :
          ks \in {q \in [1..Cardinality(keys) -> keys] :
                     \A a, b \in 1..Cardinality(keys) : q[a] = q[b] => a = b}}

\* A value of the key space is a string (SET / GET) or a list (LPUSH).
RedisString(value) == [type |-> "string", data |-> value]
RedisList(values) == [type |-> "list", data |-> values]

RedisRepository_new == <<>>

Redis_set_open_position(store, position) ==
    MapPut(store, position_key(position.instrument_id, position.signal_id),
           RedisString(Position_to_string(position)))

Redis_get_open_instrument_positions(store, instrument_id) ==
    scan_positions(store, instrument_id)

Redis_get_all_open_positions(store) ==
    scan_positions(store, AllInstrumentsPattern)

\* positions: the Vec get_open_instrument_positions returned; DEL instrument_id.
Redis_remove_positions(store, instrument_id, positions) ==
    [store |-> MapRemove(store, instrument_id), status |-> "Ok", out |-> positions]

RECURSIVE Redis_get_open_markets_positions(_, _, _)
Redis_get_open_markets_positions(store, engine_id, markets) ==
    IF markets = <<>> THEN {<<>>}
    ELSE {head \o rest :
            head \in Redis_get_open_instrument_positions(store,
                        determine_instrument_id(engine_id, markets[1].exchange,
                                                markets[1].instrument)),
            rest \in Redis_get_open_markets_positions(store, engine_id, Tail(markets))}

\* LPUSH key value: a new list for a key that does not exist, the value in
\* front of an existing list, an error for a key that holds a string.
Redis_set_exited_position(store, engine_id, position) ==
    LET key == determine_exited_positions_id(engine_id)
        value == Position_to_string(position)
    IN IF key \notin DOMAIN store
       THEN [store |-> MapPut(store, key, RedisList(<<value>>)), status |-> "Ok"]
       ELSE IF store[key].type = "list"
            THEN [store |-> MapPut(store, key, RedisList(<<value>> \o store[key].data)),
                  status |-> "Ok"]
            ELSE [store |-> store, status |-> "WriteError"]

\* GET key, read as Vec<String>.  The set of results the call can give: a
\* key that does not exist reads as nil and gives the empty Vec; a key that
\* holds a list makes GET fail, and the error is either turned into the empty
\* Vec (ErrorKind::TypeError) or returned as ReadError, depending on the kind
\* the client gives to it.
Redis_get_exited_positions(store, engine_id) ==
    LET key == determine_exited_positions_id(engine_id)
    IN IF key \notin DOMAIN store
       THEN {[status |-> "Ok", out |-> <<>>]}
       ELSE IF store[key].type = "list"
            THEN {[status |-> "Ok", out |-> <<>>], [status |-> "ReadError", out |-> <<>>]}
            ELSE {[status |-> "Ok", out |-> <<Position_from_str(store[key].data)>>]}

BalanceFields == <<"time", "total", "available">>

\* serde_json::to_string(&balance)
Balance_to_string(balance) ==
    [j \in 1..Len(BalanceFields) |-> <<BalanceFields[j], balance[BalanceFields[j]]>>]

\* serde_json::from_str::<Balance>
Balance_from_str(balance_value) ==
    [f \in {balance_value[j][1] : j \in 1..Len(balance_value)} |->
        balance_value[CHOOSE j \in 1..Len(balance_value) : balance_value[j][1] = f][2]]

Redis_set_balance(store, engine_id, balance) ==
    MapPut(store, balance_id(engine_id), RedisString(Balance_to_string(balance)))

\* GET key, read as String: every failure, a key that does not exist
\* included, is mapped to ReadError.
Redis_get_balance(store, engine_id) ==
    IF balance_id(engine_id) \in DOMAIN store /\ store[balance_id(engine_id)].type = "string"
    THEN [status |-> "Ok", balance |-> Balance_from_str(store[balance_id(engine_id)].data)]
    ELSE [status |-> "ReadError"]

----------------------------------------------------------------------------
(* DefaultAllocator and DefaultRisk *)

default_order_value == 1000
OrderScale == 10000

RECURSIVE SumQuantity(_)
SumQuantity(positions) ==
    IF positions = <<>> THEN 0
    ELSE positions[1].quantity + SumQuantity(Tail(positions))

\* f64 arithmetic on positive values.  A value is [limbs, exp]: the
\* MANTISSA_DIGITS bits of the significand are a leading 1 followed by four
\* limbs of LimbBits bits, and the value is 0.1 l1 l2 l3 l4 (binary) x 2^exp.
\* Every operation rounds to nearest, ties to even.
MANTISSA_DIGITS == 53

LimbBits == (MANTISSA_DIGITS - 1) \div 4

LimbBase == 2 ^ LimbBits

RECURSIVE f64_normalise(_, _, _)
f64_normalise(n, d, exp) ==
    IF n < d THEN f64_normalise(2 * n, d, exp - 1)
    ELSE IF n >= 2 * d THEN f64_normalise(n, 2 * d, exp + 1)
    ELSE [n |-> n, d |-> d, exp |-> exp]

\* The next count limbs of rem / d, and what is left.
RECURSIVE f64_div_limbs(_, _, _)
f64_div_limbs(rem, d, count) ==
    IF count = 0 THEN [limbs |-> <<>>, rem |-> rem]
    ELSE LET rest == f64_div_limbs((rem * LimbBase) % d, d, count - 1)
         IN [limbs |-> <<(rem * LimbBase) \div d>> \o rest.limbs, rem |-> rest.rem]

\* limbs + 1, and the carry out of the first limb.
RECURSIVE f64_add_one(_)
f64_add_one(limbs) ==
    IF limbs = <<>> THEN [limbs |-> <<>>, carry |-> 1]
    ELSE LET rest == f64_add_one(Tail(limbs))
         IN [limbs |-> <<(limbs[1] + rest.carry) % LimbBase>> \o rest.limbs,
             carry |-> (limbs[1] + rest.carry) \div LimbBase]

\* guard is the first bit dropped, sticky says whether a later one was set.
f64_round(limbs, guard, sticky, exp) ==
    IF guard = 1 /\ (sticky \/ limbs[Len(limbs)] % 2 = 1)
    THEN LET up == f64_add_one(limbs)
         IN [limbs |-> up.limbs, exp |-> exp + up.carry]
    ELSE [limbs |-> limbs, exp |-> exp]

\* n / d for two whole numbers n, d > 0.
f64_div(n, d) ==
    LET s == f64_normalise(n, d, 1)
        q == f64_div_limbs(s.n - s.d, s.d, 4)
        guard == IF 2 * q.rem >= s.d THEN 1 ELSE 0
    IN f64_round(q.limbs, guard, 2 * q.rem - guard * s.d # 0, s.exp)

\* limbs * k, and the carry out of the first limb.
RECURSIVE f64_mul_limbs(_, _)
f64_mul_limbs(limbs, k) ==
    IF limbs = <<>> THEN [limbs |-> <<>>, carry |-> 0]
    ELSE LET rest == f64_mul_limbs(Tail(limbs), k)
         IN [limbs |-> <<(limbs[1] * k + rest.carry) % LimbBase>> \o rest.limbs,
             carry |-> (limbs[1] * k + rest.carry) \div LimbBase]

\* The number of bits of n.
RECURSIVE f64_bit_length(_)
f64_bit_length(n) == IF n = 0 THEN 0 ELSE 1 + f64_bit_length(n \div 2)

\* The significand top l1 l2 l3 l4 shifted right until top is 1, at most
\* LimbBits bits at a time.
RECURSIVE f64_shift(_, _, _, _, _)
f64_shift(top, limbs, guard, sticky, exp) ==
    IF top < 2 THEN [limbs |-> limbs, guard |-> guard, sticky |-> sticky, exp |-> exp]
    ELSE LET more == f64_bit_length(top) - 1
             by == IF more > LimbBits THEN LimbBits ELSE more
             p == 2 ^ by
             dropped == limbs[Len(limbs)] % p
         IN f64_shift(top \div p,
                      [j \in 1..Len(limbs) |->
                          (IF j = 1 THEN top % p ELSE limbs[j - 1] % p) * (LimbBase \div p)
                             + limbs[j] \div p],
                      dropped \div (p \div 2),
                      sticky \/ guard = 1 \/ dropped % (p \div 2) # 0,
                      exp + by)

\* f * k for a whole number k > 0.
f64_mul(f, k) ==
    LET p == f64_mul_limbs(f.limbs, k)
        s == f64_shift(k + p.carry, p.limbs, 0, FALSE, f.exp)
    IN f64_round(s.limbs, s.guard, s.sticky, s.exp)

\* f.floor(), as a whole number.
f64_floor(f) ==
    LET whole == (LimbBase + f.limbs[1]) * LimbBase + f.limbs[2]
        bits == 1 + 2 * LimbBits
    IN IF f.exp <= 0 THEN 0
       ELSE IF f.exp <= bits THEN whole \div (2 ^ (bits - f.exp))
       ELSE whole * (2 ^ (f.exp - bits))
               + f.limbs[3] \div (2 ^ (LimbBits - (f.exp - bits)))

\* (default_order_value / close * 10000.0).floor() / 10000.0, in units of
\* 1 / OrderScale: the last division gives the f64 of the decimal with that
\* many ten-thousandths.
default_order_size(order_value, close) ==
    f64_floor(f64_mul(f64_div(order_value, close), OrderScale))

\* Mutant: a Short order gets the quantity of a Long order.
allocate_order_short_as_long(self, order, instrument_positions, signal_suggest_info) ==
    IF order.decision \in {"Long", "Short"}
    THEN [order EXCEPT !.quantity =
             default_order_size(self.default_order_value, order.market_meta.close)
                * signal_suggest_info.strength]
    ELSE [order EXCEPT !.quantity = 0 - OrderScale * SumQuantity(instrument_positions)]

\* order.quantity is in units of 1 / OrderScale.
allocate_order(self, order, instrument_positions, signal_suggest_info) ==
    LET size == default_order_size(self.default_order_value, order.market_meta.close)
    IN CASE order.decision = "Long" ->
              [order EXCEPT !.quantity = size * signal_suggest_info.strength]
         [] order.decision = "Short" ->
              [order EXCEPT !.quantity = -size * signal_suggest_info.strength]
         [] OTHER ->
              [order EXCEPT !.quantity = 0 - OrderScale * SumQuantity(instrument_positions)]

\* Mutant: every order is refused.
risk_too_high_always(order) == TRUE

allocation_manager == [default_order_value |-> default_order_value]

risk_too_high(order) == FALSE

evaluate_order(repo, order) ==
    IF risk_too_high(order) THEN None
    ELSE Some([order EXCEPT !.order_type = "Market"])

----------------------------------------------------------------------------
(* MetaPortfolio *)

first_side(positions) ==
    IF positions = <<>> THEN None ELSE Some(positions[1].side)

\* Mutant: a suggest of the side already held always enters again.
parse_signal_suggest_ignoring_re_enter(positions, signal_suggest) ==
    LET s == signal_suggest.info
        side == first_side(positions)
    IN IF signal_suggest.variant = "SuggestLong"
       THEN CASE side = None -> <<None, Some(<<"Long", s>>)>>
              [] side = Some("Buy") -> <<None, Some(<<"Long", s>>)>>
              [] side = Some("Sell") ->
                    <<Some(<<"CloseShort", s>>),
                      IF s.only_close_opposite THEN None ELSE Some(<<"Long", s>>)>>
       ELSE CASE side = None -> <<None, Some(<<"Short", s>>)>>
              [] side = Some("Buy") ->
                    <<Some(<<"CloseLong", s>>),
                      IF s.only_close_opposite THEN None ELSE Some(<<"Short", s>>)>>
              [] side = Some("Sell") -> <<None, Some(<<"Short", s>>)>>

\* Mutant: the Short-against-Buy arm closes the wrong side (copy of the Long arm).
parse_signal_suggest_wrong_close(positions, signal_suggest) ==
    LET s == signal_suggest.info
        side == first_side(positions)
    IN IF signal_suggest.variant = "SuggestLong"
       THEN CASE side = None -> <<None, Some(<<"Long", s>>)>>
              [] side = Some("Buy") ->
                    <<None, IF s.re_enter THEN Some(<<"Long", s>>) ELSE None>>
              [] side = Some("Sell") ->
                    <<Some(<<"CloseShort", s>>),
                      IF s.only_close_opposite THEN None ELSE Some(<<"Long", s>>)>>
       ELSE CASE side = None -> <<None, Some(<<"Short", s>>)>>
              [] side = Some("Buy") ->
                    <<Some(<<"CloseShort", s>>),
                      IF s.only_close_opposite THEN None ELSE Some(<<"Short", s>>)>>
              [] side = Some("Sell") ->
                    <<None, IF s.re_enter THEN Some(<<"Short", s>>) ELSE None>>

parse_signal_suggest(positions, signal_suggest) ==
    LET s == signal_suggest.info
        side == first_side(positions)
    IN IF signal_suggest.variant = "SuggestLong"
       THEN CASE side = None -> <<None, Some(<<"Long", s>>)>>
              [] side = Some("Buy") ->
                    <<None, IF s.re_enter THEN Some(<<"Long", s>>) ELSE None>>
              [] side = Some("Sell") ->
                    <<Some(<<"CloseShort", s>>),
                      IF s.only_close_opposite THEN None ELSE Some(<<"Long", s>>)>>
       ELSE CASE side = None -> <<None, Some(<<"Short", s>>)>>
              [] side = Some("Buy") ->
                    <<Some(<<"CloseLong", s>>),
                      IF s.only_close_opposite THEN None ELSE Some(<<"Short", s>>)>>
              [] side = Some("Sell") ->
                    <<None, IF s.re_enter THEN Some(<<"Short", s>>) ELSE None>>

\* Mutant: the gate reads balance.total instead of balance.available.
no_cash_to_enter_new_position_total(repo) ==
    LET got == get_balance(repo, EngineId)
    IN IF got.status = "Ok"
       THEN [status |-> "Ok", value |-> (got.balance.total = 0)]
       ELSE [status |-> "RepositoryInteraction"]

no_cash_to_enter_new_position(repo) ==
    LET got == get_balance(repo, EngineId)
    IN IF got.status = "Ok"
       THEN [status |-> "Ok", value |-> (got.balance.available = 0)]
       ELSE [status |-> "RepositoryInteraction"]

\* positions: the Vec get_open_instrument_positions returned for the signal's
\* instrument.  The call writes nothing to the repository.
\* Mutant: no order is built when a forced exit token is returned.
generate_order_token_or_order(repo, signal, positions) ==
    LET no_cash == IF positions = <<>> THEN no_cash_to_enter_new_position(repo)
                   ELSE [status |-> "Ok", value |-> FALSE]
    IN IF no_cash.status # "Ok"
       THEN [repo |-> repo, status |-> no_cash.status, out |-> <<None, None>>, parsed |-> None]
       ELSE IF positions = <<>> /\ no_cash.value
       THEN [repo |-> repo, status |-> "Ok", out |-> <<None, None>>, parsed |-> None]
       ELSE LET parsed == parse_signal_suggest(positions, signal.suggest)
                close_signal == parsed[1]
                open_signal == parsed[2]
                signal_force_exit ==
                    IF close_signal = None THEN None
                    ELSE Some([signal_id |-> signal.signal_id,
                               force_exit |-> [exchange |-> signal.exchange,
                                               instrument |-> signal.instrument]])
                order == [signal_id |-> signal.signal_id,
                          exchange |-> signal.exchange,
                          instrument |-> signal.instrument,
                          market_meta |-> signal.market_meta,
                          decision |-> open_signal[1][1],
                          quantity |-> 0,
                          order_type |-> "Market"]
            IN [repo |-> repo,
                status |-> "Ok",
                out |-> <<signal_force_exit,
                          IF open_signal = None \/ close_signal # None THEN None
                          ELSE evaluate_order(repo,
                                   allocate_order(allocation_manager, order, positions,
                                                  open_signal[1][2]))>>,
                parsed |-> Some(parsed)]

generate_order(repo, signal, positions) ==
    LET no_cash == IF positions = <<>> THEN no_cash_to_enter_new_position(repo)
                   ELSE [status |-> "Ok", value |-> FALSE]
    IN IF no_cash.status # "Ok"
       THEN [repo |-> repo, status |-> no_cash.status, out |-> <<None, None>>, parsed |-> None]
       ELSE IF positions = <<>> /\ no_cash.value
       THEN [repo |-> repo, status |-> "Ok", out |-> <<None, None>>, parsed |-> None]
       ELSE LET parsed == parse_signal_suggest(positions, signal.suggest)
                close_signal == parsed[1]
                open_signal == parsed[2]
                signal_force_exit ==
                    IF close_signal = None THEN None
                    ELSE Some([signal_id |-> signal.signal_id,
                               force_exit |-> [exchange |-> signal.exchange,
                                               instrument |-> signal.instrument]])
                order == [signal_id |-> signal.signal_id,
                          exchange |-> signal.exchange,
                          instrument |-> signal.instrument,
                          market_meta |-> signal.market_meta,
                          decision |-> open_signal[1][1],
                          quantity |-> 0,
                          order_type |-> "Market"]
            IN [repo |-> repo,
                status |-> "Ok",
                out |-> <<signal_force_exit,
                          IF open_signal = None THEN None
                          ELSE evaluate_order(repo,
                                   allocate_order(allocation_manager, order, positions,
                                                  open_signal[1][2]))>>,
                parsed |-> Some(parsed)]

\* The forced exit order of one position.
exit_order(signal, position) ==
    [signal_id |-> signal.signal_id,
     exchange |-> signal.force_exit.exchange,
     instrument |-> signal.force_exit.instrument,
     market_meta |-> [close |-> position.current_symbol_price],
     decision |-> determine_exit_decision(position),
     quantity |-> 0 - OrderScale * position.quantity,
     order_type |-> "Market"]

\* Mutant: the positions an exit order is made for are taken out of the store.
generate_exit_instrument_order_removing(repo, signal, positions) ==
    [repo |-> remove_instrument_positions(repo,
                  determine_instrument_id(EngineId, signal.force_exit.exchange,
                                          signal.force_exit.instrument)),
     status |-> "Ok",
     out |-> [j \in 1..Len(positions) |-> exit_order(signal, positions[j])]]

\* Mutant: only the first open position gets an order.
generate_exit_instrument_order_first_only(repo, signal, positions) ==
    [repo |-> repo, status |-> "Ok",
     out |-> IF positions = <<>> THEN <<>> ELSE <<exit_order(signal, positions[1])>>]

\* signal: a SignalInstrumentPositionsExit; positions: what
\* get_open_instrument_positions gave for its instrument.
generate_exit_instrument_order(repo, signal, positions) ==
    IF positions = <<>>
    THEN [repo |-> repo, status |-> "Ok", out |-> <<>>]
    ELSE [repo |-> repo, status |-> "Ok",
          out |-> [j \in 1..Len(positions) |-> exit_order(signal, positions[j])]]

\* Mutant: the updated position is returned but not saved.
RECURSIVE update_positions_unsaved(_, _, _, _)
update_positions_unsaved(repo, market, positions, positions_update) ==
    IF positions = <<>>
    THEN [repo |-> repo, status |-> "Ok", out |-> positions_update]
    ELSE LET updated == Position_update(positions[1], market)
         IN IF updated.update = None
            THEN update_positions_unsaved(repo, market, Tail(positions), positions_update)
            ELSE update_positions_unsaved(repo, market, Tail(positions),
                                          Append(positions_update, updated.update[1]))

\* Mutant: only the first position of the instrument is revalued.
update_positions_first_only(repo, market, positions, positions_update) ==
    IF positions = <<>>
    THEN [repo |-> repo, status |-> "Ok", out |-> positions_update]
    ELSE LET updated == Position_update(positions[1], market)
         IN IF updated.update = None
            THEN [repo |-> repo, status |-> "Ok", out |-> positions_update]
            ELSE [repo |-> set_open_position(repo, updated.position), status |-> "Ok",
                  out |-> Append(positions_update, updated.update[1])]

RECURSIVE update_positions(_, _, _, _)
update_positions(repo, market, positions, positions_update) ==
    IF positions = <<>>
    THEN [repo |-> repo, status |-> "Ok", out |-> positions_update]
    ELSE LET updated == Position_update(positions[1], market)
         IN IF updated.update = None
            THEN update_positions(repo, market, Tail(positions), positions_update)
            ELSE update_positions(set_open_position(repo, updated.position), market,
                                  Tail(positions),
                                  Append(positions_update, updated.update[1]))

\* Mutant: mark-to-market rolls the unrealised profit into balance.total.
update_from_market_marks_balance(repo, market, positions) ==
    LET done == update_positions(repo, market, positions, <<>>)
        balance == get_balance(repo, EngineId).balance
    IN IF done.out = <<>> THEN done
       ELSE [done EXCEPT !.repo =
                set_balance(@, EngineId,
                    [balance EXCEPT !.total = @ + done.out[1].unrealised_profit_loss])]

\* Mutant: the revalued positions are saved but their diffs are not returned.
update_from_market_without_diffs(repo, market, positions) ==
    [update_positions(repo, market, positions, <<>>) EXCEPT !.out = <<>>]

\* positions: the Vec get_open_instrument_positions returned for the event's
\* instrument.
update_from_market(repo, market, positions) ==
    update_positions(repo, market, positions, <<>>)

PositionExit_from(position) ==
    [instrument_id |-> position.instrument_id,
     signal_id |-> position.signal_id,
     exit_value_gross |-> position.exit_value_gross,
     exit_fees_total |-> position.exit_fees_total,
     realised_profit_loss |-> position.realised_profit_loss,
     exit_balance |-> position.exit_balance]

Event_PositionNew(position) == [kind |-> "PositionNew", payload |-> position]
Event_PositionExit(position_exit) == [kind |-> "PositionExit", payload |-> position_exit]
Event_Balance(balance) == [kind |-> "Balance", payload |-> balance]

\* Mutant: the entry fees are not debited.
balance_on_entry_without_fees(balance, position) ==
    [balance EXCEPT !.available = @ + (-position.enter_value_gross)]

\* balance.available on Position entry.
balance_on_entry(balance, position) ==
    [balance EXCEPT !.available = @ + (-position.enter_value_gross)
                                    - position.enter_fees_total]

\* Mutant: the entry fees are not added back to available.
balance_on_exit_without_fee_refund(balance, position) ==
    [balance EXCEPT !.available = @ + position.enter_value_gross
                                    + position.realised_profit_loss,
                    !.total = @ + position.realised_profit_loss]

\* Mutant: the realised profit is not added to total.
balance_on_exit_total_unchanged(balance, position) ==
    [balance EXCEPT !.available = @ + position.enter_value_gross
                                    + position.realised_profit_loss
                                    + position.enter_fees_total]

\* Portfolio balance on Position exit.
balance_on_exit(balance, position) ==
    [balance EXCEPT !.available = @ + position.enter_value_gross
                                    + position.realised_profit_loss
                                    + position.enter_fees_total,
                    !.total = @ + position.realised_profit_loss]

\* Mutant: the Balance event is put in front of the position events.
push_balance_event_first(generated_events, balance) ==
    <<Event_Balance(balance)>> \o generated_events

\* The Balance event closes the events of a fill.
push_balance_event(generated_events, balance) ==
    Append(generated_events, Event_Balance(balance))

\* Mutant: the exited position is not appended to the exited positions.
persist_exited_position_without_exited(repo, market_id, stats, position) ==
    set_statistics(repo, market_id, stats)

\* Mutant: the updated statistic is not saved.
persist_exited_position_without_statistics(repo, market_id, stats, position) ==
    set_exited_position(repo, EngineId, position)

\* Persist exited Position & updated market statistics in the repository.
persist_exited_position(repo, market_id, stats, position) ==
    set_exited_position(set_statistics(repo, market_id, stats), EngineId, position)

\* The loop over the removed positions of an exit fill.
RECURSIVE exit_positions(_, _, _, _, _)
exit_positions(repo, balance, generated_events, positions, fill) ==
    IF positions = <<>>
    THEN [repo |-> repo, status |-> "Ok", balance |-> balance, events |-> generated_events]
    ELSE LET exited == Position_exit(positions[1], balance, fill)
         IN IF exited.status # "Ok"
            THEN [repo |-> repo, status |-> exited.status,
                  balance |-> balance, events |-> generated_events]
            ELSE LET position == exited.position
                     events1 == Append(generated_events,
                                       Event_PositionExit(PositionExit_from(position)))
                     balance1 == balance_on_exit(balance, position)
                     market_id == MarketId_new(fill.exchange, fill.instrument)
                     got == get_statistics(repo, market_id)
                 IN IF got.status # "Ok"
                    THEN [repo |-> repo, status |-> "RepositoryInteraction",
                          balance |-> balance1, events |-> events1]
                    ELSE LET stats == Statistic_update(got.statistic, position)
                             repo1 == persist_exited_position(repo, market_id, stats, position)
                         IN exit_positions(repo1, balance1, events1, Tail(positions), fill)

\* Mutant: the guard never refuses an entry fill.
existing_opposite_position_never(positions, fill) == FALSE

\* Mutant: only a Long fill is checked against the first position.
existing_opposite_position_long_only(positions, fill) ==
    /\ positions # <<>>
    /\ positions[1].side = "Sell" /\ fill.decision = "Long"

\* The guard of an entry fill against the first position of the instrument.
existing_opposite_position(positions, fill) ==
    /\ positions # <<>>
    /\ \/ (positions[1].side = "Sell" /\ fill.decision = "Long")
       \/ (positions[1].side = "Buy" /\ fill.decision = "Short")

\* Mutant: closing a position that does not exist is a typed error.
close_a_not_exist_position_as_error(repo) ==
    [repo |-> repo, status |-> "RepositoryInteraction", out |-> <<>>]

\* unreachable!("close a not exist position"): the call panics, it returns
\* neither Ok nor an error.
close_a_not_exist_position(repo) ==
    [repo |-> repo, status |-> "panic", out |-> <<>>]

\* positions: for an exit fill the Vec remove_instrument_positions returned, for
\* an entry fill the Vec get_open_instrument_positions returned.
update_from_fill(repo, fill, positions) ==
    LET got == get_balance(repo, EngineId)
        instrument_id == determine_instrument_id(EngineId, fill.exchange, fill.instrument)
    IN IF got.status # "Ok"
       THEN [repo |-> repo, status |-> "RepositoryInteraction", out |-> <<>>]
       ELSE LET balance == [got.balance EXCEPT !.time = fill.time]
            IN IF is_exit(fill.decision)
               THEN LET repo1 == remove_instrument_positions(repo, instrument_id)
                    IN IF positions = <<>>
                       THEN close_a_not_exist_position(repo1)
                       ELSE LET done == exit_positions(repo1, balance, <<>>, positions, fill)
                            IN IF done.status # "Ok"
                               THEN [repo |-> done.repo, status |-> done.status, out |-> <<>>]
                               ELSE [repo |-> set_balance(done.repo, EngineId, done.balance),
                                     status |-> "Ok",
                                     out |-> push_balance_event(done.events, done.balance)]
               ELSE IF existing_opposite_position(positions, fill)
                    THEN [repo |-> repo, status |-> "ExistingOppositePosition", out |-> <<>>]
                    ELSE LET entered == Position_enter(EngineId, fill)
                         IN IF entered.status # "Ok"
                            THEN [repo |-> repo, status |-> entered.status, out |-> <<>>]
                            ELSE LET position == entered.position
                                     balance1 == balance_on_entry(balance, position)
                                     repo1 == set_open_position(repo, position)
                                 IN [repo |-> set_balance(repo1, EngineId, balance1),
                                     status |-> "Ok",
                                     out |-> push_balance_event(
                                                <<Event_PositionNew(position)>>, balance1)]

\* Mutant: only the balance is persisted, no statistics.
bootstrap_repository_without_statistics(repo, starting_cash, markets) ==
    set_balance(repo, EngineId,
                [time |-> 0, total |-> starting_cash, available |-> starting_cash])

bootstrap_repository(repo, starting_cash, markets) ==
    LET RECURSIVE init_statistics(_, _)
        init_statistics(r, ms) ==
            IF ms = {} THEN r
            ELSE LET market == CHOOSE m \in ms : TRUE
                 IN init_statistics(
                        set_statistics(r, MarketId_new(Exchange, market), Statistic_init),
                        ms \ {market})
    IN init_statistics(
           set_balance(repo, EngineId,
                       [time |-> 0, total |-> starting_cash, available |-> starting_cash]),
           markets)

----------------------------------------------------------------------------
(* Inputs *)

Suggests ==
    [variant : {"SuggestLong", "SuggestShort"},
     info : [strength : Strengths, only_close_opposite : BOOLEAN, re_enter : BOOLEAN]]

Signals ==
    [signal_id : OrderSignalIds, exchange : {Exchange}, instrument : Instruments,
     suggest : Suggests, market_meta : [close : Closes]]

MarketEvents ==
    {[exchange |-> Exchange, instrument |-> i, kind |-> k[1], price |-> k[2]] :
        i \in Instruments, k \in {<<"Trade", 50>>, <<"Candle", 200>>}}
    \cup [exchange : {Exchange}, instrument : Instruments, kind : {"OrderBook"},
          price : {0}]

\* Fills as the execution side produces them from the engine's orders: the
\* quantity of a Long is positive, of a Short negative; an exit fill carries a
\* flattening quantity, whose sign is the opposite of the side it closes.
EntryFillsAt(time) ==
    {[time |-> time, exchange |-> Exchange, instrument |-> i, signal_id |-> id,
      decision |-> d, quantity |-> IF d = "Long" THEN sh[1] ELSE -sh[1],
      fill_value_gross |-> sh[2], fees |-> fees] :
        i \in Instruments, id \in SignalIds, d \in EntryDecisions,
        sh \in EntryShapes, fees \in FeesChoices}

ExitFillsAt(time) ==
    {[time |-> time, exchange |-> Exchange, instrument |-> i, signal_id |-> id,
      decision |-> d, quantity |-> IF d = "CloseShort" THEN 1 ELSE -1,
      fill_value_gross |-> v, fees |-> fees] :
        i \in Instruments, id \in ExitSignalIds, d \in ExitDecisions,
        v \in FillValues, fees \in FeesChoices}

FillsAt(time) == EntryFillsAt(time) \cup ExitFillsAt(time)

----------------------------------------------------------------------------
(* The engine as a state machine: one action per call *)

Init ==
    \E starting_cash \in StartingCashes, markets \in MarketLists :
        /\ repository = bootstrap_repository(InMemoryRepository_new, starting_cash, markets)
        /\ before = InMemoryRepository_new
        /\ last = [op |-> "init", arg |-> <<starting_cash, markets>>,
                   positions |-> <<>>, status |-> "Ok", out |-> <<>>, parsed |-> None]
        /\ clock = 0
        /\ last_entry = None
        /\ redis = RedisRepository_new
        /\ stored = <<>>
        /\ engine_loop = EngineLoop_idle
        /\ tasks = <<>>

Running == last.status # "panic" /\ clock < MaxCalls

GenerateOrder ==
    /\ Running
    /\ \E signal \in Signals :
         \E positions \in get_open_instrument_positions(repository,
                determine_instrument_id(EngineId, signal.exchange, signal.instrument)) :
            \E r \in {generate_order(repository, signal, positions)} :
               /\ repository' = r.repo
               /\ before' = repository
               /\ last' = [op |-> "generate_order", arg |-> signal,
                           positions |-> positions, status |-> r.status,
                           out |-> r.out, parsed |-> r.parsed]
               /\ clock' = clock + 1
               /\ UNCHANGED <<last_entry, redis, stored, engine_loop, tasks>>

UpdateFromMarket ==
    /\ Running
    /\ \E market \in MarketEvents :
         \E positions \in get_open_instrument_positions(repository,
                determine_instrument_id(EngineId, market.exchange, market.instrument)) :
            \E r \in {update_from_market(repository, market, positions)} :
               /\ repository' = r.repo
               /\ before' = repository
               /\ last' = [op |-> "update_from_market", arg |-> market,
                           positions |-> positions, status |-> r.status,
                           out |-> r.out, parsed |-> None]
               /\ clock' = clock + 1
               /\ UNCHANGED <<last_entry, redis, stored, engine_loop, tasks>>

UpdateFromFill ==
    /\ Running
    /\ \E fill \in FillsAt(clock + 1) :
         \E positions \in get_open_instrument_positions(repository,
                determine_instrument_id(EngineId, fill.exchange, fill.instrument)) :
            \E r \in {update_from_fill(repository, fill, positions)} :
               /\ repository' = r.repo
               /\ before' = repository
               /\ last' = [op |-> "update_from_fill", arg |-> fill,
                           positions |-> positions, status |-> r.status,
                           out |-> r.out, parsed |-> None]
               /\ clock' = clock + 1
               /\ last_entry' =
                    IF r.status = "Ok" /\ is_entry(fill.decision)
                    THEN Some([instrument |-> fill.instrument,
                               signal_id |-> fill.signal_id,
                               fill |-> fill,
                               balance_before |-> get_balance(repository, EngineId).balance,
                               balance_after |-> get_balance(r.repo, EngineId).balance])
                    ELSE last_entry
               /\ UNCHANGED <<redis, stored, engine_loop, tasks>>

ExitTokens ==
    [signal_id : OrderSignalIds,
     force_exit : [exchange : {Exchange}, instrument : Instruments]]

GenerateExitInstrumentOrder ==
    /\ Running
    /\ \E signal \in ExitTokens :
         \E positions \in get_open_instrument_positions(repository,
                determine_instrument_id(EngineId, signal.force_exit.exchange,
                                        signal.force_exit.instrument)) :
            \E r \in {generate_exit_instrument_order(repository, signal, positions)} :
               /\ repository' = r.repo
               /\ before' = repository
               /\ last' = [op |-> "generate_exit_instrument_order", arg |-> signal,
                           positions |-> positions, status |-> r.status,
                           out |-> r.out, parsed |-> None]
               /\ clock' = clock + 1
               /\ UNCHANGED <<last_entry, redis, stored, engine_loop, tasks>>

Next ==
    \/ GenerateOrder
    \/ UpdateFromMarket
    \/ UpdateFromFill
    \/ GenerateExitInstrumentOrder

Spec == Init /\ [][Next]_vars

----------------------------------------------------------------------------
(* The repository driven directly through PositionHandler: every call goes  *)
(* to an InMemoryRepository and, where the RedisRepository has the          *)
(* operation, to a RedisRepository as well.                                 *)

MaxRepoCalls == 4

\* The positions handed to set_open_position: two per (instrument, signal_id).
RepoPositions ==
    {Position_enter(EngineId, fill).position :
        fill \in {f \in EntryFillsAt(0) : f.decision = "Long"}}
    \cup {Position_enter("engine_2", fill).position :
             fill \in {f \in EntryFillsAt(0) :
                          /\ f.decision = "Long" /\ f.instrument = "btc_usdt"
                          /\ f.signal_id = "sig_a" /\ f.quantity = 1}}

StoredKey(instrument_id, signal_id) == <<instrument_id, signal_id>>

RepoExitedPositions ==
    {p \in RepoPositions :
        /\ p.instrument_id = determine_instrument_id(EngineId, Exchange, "btc_usdt")
        /\ p.signal_id = "sig_a"}

RepoBalances ==
    {[time |-> 0, total |-> 100, available |-> 100],
     [time |-> 0, total |-> 200, available |-> 150]}

Market_new(exchange, instrument) == [exchange |-> exchange, instrument |-> instrument]

MarketVecs ==
    {<<>>,
     <<Market_new(Exchange, "btc_usdt")>>,
     <<Market_new(Exchange, "eth_usdt"), Market_new(Exchange, "btc_usdt")>>}

RepoInit ==
    /\ repository = InMemoryRepository_new
    /\ before = InMemoryRepository_new
    /\ redis = RedisRepository_new
    /\ stored = <<>>
    /\ engine_loop = EngineLoop_idle
    /\ tasks = <<>>
    /\ last = [op |-> "new", arg |-> <<>>, status |-> "Ok", out |-> <<>>,
               redis_before |-> RedisRepository_new, redis_out |-> <<>>,
               only_sets |-> TRUE]
    /\ clock = 0
    /\ last_entry = None

RepoRunning == clock < MaxRepoCalls

SetOpenPosition ==
    /\ RepoRunning
    /\ \E position \in RepoPositions :
          /\ repository' = set_open_position(repository, position)
          /\ redis' = Redis_set_open_position(redis, position)
          /\ stored' = MapPut(stored,
                              StoredKey(position.instrument_id, position.signal_id),
                              position)
          /\ last' = [op |-> "set_open_position", arg |-> position, status |-> "Ok",
                      out |-> <<>>, redis_before |-> redis, redis_out |-> <<>>,
                      only_sets |-> last.only_sets]
    /\ before' = repository
    /\ clock' = clock + 1
    /\ UNCHANGED <<last_entry, engine_loop, tasks>>

\* remove_position is an operation of the InMemoryRepository only.
RemovePosition ==
    /\ RepoRunning
    /\ \E instrument \in Instruments, signal_id \in SignalIds :
          LET instrument_id == determine_instrument_id(EngineId, Exchange, instrument)
              r == remove_position(repository, instrument_id, signal_id)
          IN /\ repository' = r.repo
             /\ stored' = IF r.status = "Ok"
                          THEN MapRemove(stored, StoredKey(instrument_id, signal_id))
                          ELSE stored
             /\ last' = [op |-> "remove_position", arg |-> <<instrument_id, signal_id>>,
                         status |-> r.status, out |-> r.out,
                         redis_before |-> redis, redis_out |-> <<>>,
                         only_sets |-> FALSE]
    /\ before' = repository
    /\ clock' = clock + 1
    /\ UNCHANGED <<last_entry, redis, engine_loop, tasks>>

RemoveInstrumentPositions ==
    /\ RepoRunning
    /\ \E instrument \in Instruments :
          LET instrument_id == determine_instrument_id(EngineId, Exchange, instrument)
          IN \E positions \in get_open_instrument_positions(repository, instrument_id),
                redis_positions \in Redis_get_open_instrument_positions(redis, instrument_id) :
                LET r == Redis_remove_positions(redis, instrument_id, redis_positions)
                IN /\ repository' = remove_instrument_positions(repository, instrument_id)
                   /\ redis' = r.store
                   /\ stored' = [k \in {q \in DOMAIN stored : q[1] # instrument_id} |->
                                    stored[k]]
                   /\ last' = [op |-> "remove_instrument_positions",
                               arg |-> instrument_id, status |-> "Ok",
                               out |-> positions,
                               redis_before |-> redis, redis_out |-> r.out,
                               only_sets |-> FALSE]
    /\ before' = repository
    /\ clock' = clock + 1
    /\ UNCHANGED <<last_entry, engine_loop, tasks>>

GetOpenMarketsPositions ==
    /\ RepoRunning
    /\ \E engine_id \in EngineIds, markets \in MarketVecs :
          \E positions \in get_open_markets_positions(repository, engine_id, markets),
             redis_positions \in Redis_get_open_markets_positions(redis, engine_id, markets) :
             last' = [op |-> "get_open_markets_positions", arg |-> <<engine_id, markets>>,
                      status |-> "Ok", out |-> positions,
                      redis_before |-> redis, redis_out |-> redis_positions,
                      only_sets |-> last.only_sets]
    /\ before' = repository
    /\ clock' = clock + 1
    /\ UNCHANGED <<repository, redis, stored, last_entry, engine_loop, tasks>>

SetExitedPosition ==
    /\ RepoRunning
    /\ \E engine_id \in EngineIds, position \in RepoExitedPositions :
          LET r == Redis_set_exited_position(redis, engine_id, position)
          IN /\ repository' = set_exited_position(repository, engine_id, position)
             /\ redis' = r.store
             /\ last' = [op |-> "set_exited_position", arg |-> <<engine_id, position>>,
                         status |-> "Ok", out |-> <<>>,
                         redis_before |-> redis, redis_out |-> <<r.status>>,
                         only_sets |-> last.only_sets]
    /\ before' = repository
    /\ clock' = clock + 1
    /\ UNCHANGED <<stored, last_entry, engine_loop, tasks>>

SetBalance ==
    /\ RepoRunning
    /\ \E engine_id \in EngineIds, balance \in RepoBalances :
          /\ repository' = set_balance(repository, engine_id, balance)
          /\ redis' = Redis_set_balance(redis, engine_id, balance)
          /\ last' = [op |-> "set_balance", arg |-> <<engine_id, balance>>,
                      status |-> "Ok", out |-> <<>>,
                      redis_before |-> redis, redis_out |-> <<>>,
                      only_sets |-> last.only_sets]
    /\ before' = repository
    /\ clock' = clock + 1
    /\ UNCHANGED <<stored, last_entry, engine_loop, tasks>>

RepoNext ==
    \/ SetOpenPosition
    \/ RemovePosition
    \/ RemoveInstrumentPositions
    \/ GetOpenMarketsPositions
    \/ SetExitedPosition
    \/ SetBalance

RepoSpec == RepoInit /\ [][RepoNext]_vars

----------------------------------------------------------------------------
(* The allocator and the risk evaluator on their own: every call of
   allocate_order and evaluate_order on a range of inputs. *)

AllocOrderValues == {1000, 57, 29, 3, 1}

AllocCloses == {100, 300, 10000, 8, 3}

\* Strengths whose product with the size is exact in f64.
AllocStrengths == {1, 2}

AllocPositions ==
    {Position_enter(EngineId, fill).position :
        fill \in {f \in EntryFillsAt(0) :
                     /\ f.instrument = "btc_usdt"
                     /\ \A g \in FeesChoices : calculate_total_fees(f.fees)
                                                  <= calculate_total_fees(g)}}

AllocPositionVecs ==
    {<<>>} \cup {<<p>> : p \in AllocPositions}
           \cup {pq \in AllocPositions \X AllocPositions :
                    /\ pq[1].signal_id = "sig_a"
                    /\ pq[2].signal_id = "sig_b"
                    /\ pq[1].side = pq[2].side}

AllocOrders ==
    [signal_id : {"sig_b"}, exchange : {Exchange}, instrument : {"btc_usdt"},
     market_meta : [close : AllocCloses], decision : EntryDecisions \cup ExitDecisions,
     quantity : {0}, order_type : {"Market"}]

AllocSuggestInfos ==
    [strength : AllocStrengths, only_close_opposite : {FALSE}, re_enter : {FALSE}]

RiskOrders ==
    [signal_id : SignalIds, exchange : {Exchange}, instrument : Instruments,
     market_meta : [close : Closes], decision : EntryDecisions \cup ExitDecisions,
     quantity : {-33333, 0, 10000}, order_type : {"Market", "Limit"}]

ComponentRepositories ==
    {InMemoryRepository_new} \cup
    {set_open_position(InMemoryRepository_new, p) :
        p \in {x \in AllocPositions : x.signal_id = "sig_a"}}

\* The arguments of one call of allocate_order.
AllocInputs ==
    {[op |-> "input", call |-> "allocate_order",
      arg |-> <<[default_order_value |-> order_value], order, positions, info>>,
      out |-> <<>>] :
        order_value \in AllocOrderValues, order \in AllocOrders,
        positions \in AllocPositionVecs, info \in AllocSuggestInfos}

\* The argument of one call of evaluate_order.
RiskInputs ==
    {[op |-> "input", call |-> "evaluate_order", arg |-> order, out |-> <<>>] :
        order \in RiskOrders}

ComponentInit ==
    /\ repository \in ComponentRepositories
    /\ before = repository
    /\ redis = RedisRepository_new
    /\ stored = <<>>
    /\ engine_loop = EngineLoop_idle
    /\ tasks = <<>>
    /\ (last \in AllocInputs \/ last \in RiskInputs)
    /\ clock = 0
    /\ last_entry = None

AllocateOrder ==
    /\ last.op = "input"
    /\ last.call = "allocate_order"
    /\ last' = [last EXCEPT !.op = "allocate_order",
                            !.out = allocate_order(last.arg[1], last.arg[2],
                                                   last.arg[3], last.arg[4])]
    /\ before' = repository
    /\ UNCHANGED <<repository, redis, stored, clock, last_entry, engine_loop, tasks>>

EvaluateOrder ==
    /\ last.op = "input"
    /\ last.call = "evaluate_order"
    /\ last' = [last EXCEPT !.op = "evaluate_order",
                            !.out = evaluate_order(repository, last.arg)]
    /\ before' = repository
    /\ UNCHANGED <<repository, redis, stored, clock, last_entry, engine_loop, tasks>>

ComponentNext == AllocateOrder \/ EvaluateOrder

ComponentSpec == ComponentInit /\ [][ComponentNext]_vars

----------------------------------------------------------------------------
(* The event loop around the portfolio: every signal goes to generate_order,
   a forced-exit signal it returns goes to generate_exit_instrument_order, and
   every order is filled by the execution and applied with update_from_fill
   before the next signal is taken: the forced-exit orders first, then the
   entry order. *)

MaxSignals == 3

\* Signal::new: every signal carries an id of its own.
SignalIdAt(n) == "sig_" \o ToString(n)

LoopSignals(n) ==
    [signal_id : {SignalIdAt(n)}, exchange : {Exchange}, instrument : Instruments,
     suggest : Suggests, market_meta : [close : Closes]]

Item_force_exit(signal) == [kind |-> "force_exit", payload |-> signal]
Item_order(order) == [kind |-> "order", payload |-> order]

\* The fills the execution can answer an order with: same market, signal and
\* decision, a quantity with the sign of the order's.
FillsOf(order, time) ==
    {[time |-> time, exchange |-> order.exchange, instrument |-> order.instrument,
      signal_id |-> order.signal_id, decision |-> order.decision,
      quantity |-> IF order.quantity < 0 THEN -sh[1] ELSE sh[1],
      fill_value_gross |-> sh[2], fees |-> fees] :
        sh \in EntryShapes, fees \in FeesChoices}

LoopRunning == last.status # "panic"

\* The next signal of the strategy, taken when nothing is waiting.
HandleSignal ==
    /\ LoopRunning
    /\ engine_loop.queue = <<>>
    /\ engine_loop.signals < MaxSignals
    /\ \E signal \in LoopSignals(engine_loop.signals + 1) :
         \E positions \in get_open_instrument_positions(repository,
                determine_instrument_id(EngineId, signal.exchange, signal.instrument)) :
            \E r \in {generate_order(repository, signal, positions)} :
               /\ repository' = r.repo
               /\ before' = repository
               /\ last' = [op |-> "generate_order", arg |-> signal,
                           positions |-> positions, status |-> r.status,
                           out |-> r.out, parsed |-> r.parsed]
               /\ clock' = clock + 1
               /\ engine_loop' =
                    [signals |-> engine_loop.signals + 1,
                     re_enter |-> engine_loop.re_enter \/ signal.suggest.info.re_enter,
                     queue |-> (IF r.out[1] = None THEN <<>>
                                ELSE <<Item_force_exit(r.out[1][1])>>)
                               \o (IF r.out[2] = None THEN <<>>
                                   ELSE <<Item_order(r.out[2][1])>>)]
               /\ UNCHANGED <<last_entry, redis, stored, tasks>>

\* The forced-exit signal at the head of the queue becomes its exit orders.
HandleForceExit ==
    /\ LoopRunning
    /\ engine_loop.queue # <<>>
    /\ Head(engine_loop.queue).kind = "force_exit"
    /\ LET signal == Head(engine_loop.queue).payload
       IN \E positions \in get_open_instrument_positions(repository,
                determine_instrument_id(EngineId, signal.force_exit.exchange,
                                        signal.force_exit.instrument)) :
            \E r \in {generate_exit_instrument_order(repository, signal, positions)} :
               /\ repository' = r.repo
               /\ before' = repository
               /\ last' = [op |-> "generate_exit_instrument_order", arg |-> signal,
                           positions |-> positions, status |-> r.status,
                           out |-> r.out, parsed |-> None]
               /\ clock' = clock + 1
               /\ engine_loop' =
                    [engine_loop EXCEPT
                        !.queue = [j \in 1..Len(r.out) |-> Item_order(r.out[j])]
                                  \o Tail(engine_loop.queue)]
               /\ UNCHANGED <<last_entry, redis, stored, tasks>>

\* The order at the head of the queue is filled and the fill applied.
HandleFill ==
    /\ LoopRunning
    /\ engine_loop.queue # <<>>
    /\ Head(engine_loop.queue).kind = "order"
    /\ \E fill \in FillsOf(Head(engine_loop.queue).payload, clock + 1) :
         \E positions \in get_open_instrument_positions(repository,
                determine_instrument_id(EngineId, fill.exchange, fill.instrument)) :
            \E r \in {update_from_fill(repository, fill, positions)} :
               /\ repository' = r.repo
               /\ before' = repository
               /\ last' = [op |-> "update_from_fill", arg |-> fill,
                           positions |-> positions, status |-> r.status,
                           out |-> r.out, parsed |-> None]
               /\ clock' = clock + 1
               /\ engine_loop' = [engine_loop EXCEPT !.queue = Tail(@)]
               /\ UNCHANGED <<last_entry, redis, stored, tasks>>

LoopNext ==
    \/ HandleSignal
    \/ HandleForceExit
    \/ HandleFill

LoopSpec == Init /\ [][LoopNext]_vars

----------------------------------------------------------------------------
(* Two engines on one backend.  The backend serializes the repository calls:
   each call is one step.  An engine inside update_from_fill keeps its balance,
   the positions it removed and the statistic it read in local variables
   between its calls. *)

\* bootstrap_repository of the engine with the given id.
bootstrap_engine(repo, engine_id, starting_cash, markets) ==
    LET RECURSIVE init_statistics(_, _)
        init_statistics(r, ms) ==
            IF ms = {} THEN r
            ELSE LET market == CHOOSE m \in ms : TRUE
                 IN init_statistics(
                        set_statistics(r, MarketId_new(Exchange, market), Statistic_init),
                        ms \ {market})
    IN init_statistics(
           set_balance(repo, engine_id,
                       [time |-> 0, total |-> starting_cash, available |-> starting_cash]),
           markets)

\* An engine entering update_from_fill.
Task_new(fill) ==
    [pc |-> "get_balance", fill |-> fill, status |-> "Ok",
     balance |-> None, positions |-> <<>>, position |-> None, stats |-> None]

Task_return(task, status) == [task EXCEPT !.pc = "done", !.status = status]

\* The next repository call of update_from_fill, with the code up to the call
\* after it.  positions: what the backend returns if the call reads the open
\* positions of the instrument.
fill_step(repo, engine_id, task, positions) ==
    LET fill == task.fill
        instrument_id == determine_instrument_id(engine_id, fill.exchange, fill.instrument)
        market_id == MarketId_new(fill.exchange, fill.instrument)
    IN CASE task.pc = "get_balance" ->
              LET got == get_balance(repo, engine_id)
              IN IF got.status # "Ok"
                 THEN [repo |-> repo, task |-> Task_return(task, "RepositoryInteraction")]
                 ELSE [repo |-> repo,
                       task |-> [task EXCEPT
                                   !.balance = Some([got.balance EXCEPT !.time = fill.time]),
                                   !.pc = IF is_exit(fill.decision)
                                          THEN "remove_instrument_positions"
                                          ELSE "get_open_instrument_positions"]]
         [] task.pc = "remove_instrument_positions" ->
              IF positions = <<>>
              THEN [repo |-> remove_instrument_positions(repo, instrument_id),
                    task |-> Task_return(task, "panic")]
              ELSE [repo |-> remove_instrument_positions(repo, instrument_id),
                    task |-> [task EXCEPT !.positions = positions, !.pc = "get_statistics"]]
         [] task.pc = "get_statistics" ->
              LET exited == Position_exit(Head(task.positions), task.balance[1], fill)
              IN IF exited.status # "Ok"
                 THEN [repo |-> repo, task |-> Task_return(task, exited.status)]
                 ELSE LET got == get_statistics(repo, market_id)
                      IN IF got.status # "Ok"
                         THEN [repo |-> repo,
                               task |-> Task_return(task, "RepositoryInteraction")]
                         ELSE [repo |-> repo,
                               task |-> [task EXCEPT
                                           !.position = Some(exited.position),
                                           !.balance = Some(balance_on_exit(task.balance[1],
                                                                            exited.position)),
                                           !.stats = Some(Statistic_update(got.statistic,
                                                                           exited.position)),
                                           !.pc = "set_statistics"]]
         [] task.pc = "set_statistics" ->
              [repo |-> set_statistics(repo, market_id, task.stats[1]),
               task |-> [task EXCEPT !.pc = "set_exited_position"]]
         [] task.pc = "set_exited_position" ->
              [repo |-> set_exited_position(repo, engine_id, task.position[1]),
               task |-> [task EXCEPT !.positions = Tail(@),
                                     !.pc = IF Tail(task.positions) = <<>>
                                            THEN "set_balance" ELSE "get_statistics"]]
         [] task.pc = "get_open_instrument_positions" ->
              IF existing_opposite_position(positions, fill)
              THEN [repo |-> repo, task |-> Task_return(task, "ExistingOppositePosition")]
              ELSE LET entered == Position_enter(engine_id, fill)
                   IN IF entered.status # "Ok"
                      THEN [repo |-> repo, task |-> Task_return(task, entered.status)]
                      ELSE [repo |-> repo,
                            task |-> [task EXCEPT
                                        !.position = Some(entered.position),
                                        !.balance = Some(balance_on_entry(task.balance[1],
                                                                          entered.position)),
                                        !.pc = "set_open_position"]]
         [] task.pc = "set_open_position" ->
              [repo |-> set_open_position(repo, task.position[1]),
               task |-> [task EXCEPT !.pc = "set_balance"]]
         [] task.pc = "set_balance" ->
              [repo |-> set_balance(repo, engine_id, task.balance[1]),
               task |-> Task_return(task, "Ok")]

\* update_from_fill run from its first call to its return with no call of
\* another engine in between.
RECURSIVE run_fill(_, _, _, _)
run_fill(repo, engine_id, task, positions) ==
    IF task.pc = "done" THEN [repo |-> repo, status |-> task.status]
    ELSE LET next == fill_step(repo, engine_id, task, positions)
         IN run_fill(next.repo, engine_id, next.task, positions)

\* The results update_from_fill can give on the repository (one per order in
\* which the backend can return the open positions).
sequential_fill(repo, engine_id, fill) ==
    {run_fill(repo, engine_id, Task_new(fill), positions) :
        positions \in get_open_instrument_positions(repo,
            determine_instrument_id(engine_id, fill.exchange, fill.instrument))}

ConcInstruments == Instruments
ConcStartingCash == 400

\* What one engine did before the two fills meet: nothing, or one Long filled.
ConcHistories == {<<>>} \cup
    {<<[time |-> 1, exchange |-> Exchange, instrument |-> i, signal_id |-> "sig_a",
        decision |-> "Long", quantity |-> 1, fill_value_gross |-> 100, fees |-> fees]>> :
        i \in ConcInstruments, fees \in FeesChoices}

\* The fill an engine receives.
ConcFills ==
    {[time |-> 2, exchange |-> Exchange, instrument |-> i, signal_id |-> "sig_b",
      decision |-> d, quantity |-> IF d \in {"Long", "CloseShort"} THEN 1 ELSE -1,
      fill_value_gross |-> 200, fees |-> fees] :
        i \in ConcInstruments, d \in {"Long", "CloseLong"}, fees \in FeesChoices}

\* The backend after an engine's bootstrap and history, run on its own.
RECURSIVE after_history(_, _, _)
after_history(repo, engine_id, history) ==
    IF history = <<>> THEN repo
    ELSE after_history(
            (CHOOSE r \in sequential_fill(repo, engine_id, Head(history)) : TRUE).repo,
            engine_id, Tail(history))

ConcInit ==
    \E h1 \in ConcHistories, h2 \in ConcHistories, f1 \in ConcFills, f2 \in ConcFills :
        /\ repository =
              after_history(
                  after_history(
                      bootstrap_engine(
                          bootstrap_engine(InMemoryRepository_new, "engine_1",
                                           ConcStartingCash, Instruments),
                          "engine_2", ConcStartingCash, Instruments),
                      "engine_1", h1),
                  "engine_2", h2)
        /\ before = repository
        /\ tasks = [e \in EngineIds |-> IF e = "engine_1" THEN Task_new(f1) ELSE Task_new(f2)]
        /\ last = [op |-> "init", engine_id |-> "", status |-> "Ok"]
        /\ clock = 0
        /\ last_entry = None
        /\ redis = RedisRepository_new
        /\ stored = <<>>
        /\ engine_loop = EngineLoop_idle

\* Engine engine_id makes the repository call it is at.
RepositoryCall(engine_id, pc) ==
    /\ tasks[engine_id].pc = pc
    /\ \E positions \in get_open_instrument_positions(repository,
            determine_instrument_id(engine_id, tasks[engine_id].fill.exchange,
                                    tasks[engine_id].fill.instrument)) :
         \E r \in {fill_step(repository, engine_id, tasks[engine_id], positions)} :
            /\ repository' = r.repo
            /\ tasks' = [tasks EXCEPT ![engine_id] = r.task]
            /\ last' = [op |-> pc, engine_id |-> engine_id, status |-> r.task.status]
            /\ clock' = clock + 1
            /\ UNCHANGED <<before, last_entry, redis, stored, engine_loop>>

CallGetBalance == \E e \in EngineIds : RepositoryCall(e, "get_balance")
CallRemoveInstrumentPositions ==
    \E e \in EngineIds : RepositoryCall(e, "remove_instrument_positions")
CallGetStatistics == \E e \in EngineIds : RepositoryCall(e, "get_statistics")
CallSetStatistics == \E e \in EngineIds : RepositoryCall(e, "set_statistics")
CallSetExitedPosition == \E e \in EngineIds : RepositoryCall(e, "set_exited_position")
CallGetOpenInstrumentPositions ==
    \E e \in EngineIds : RepositoryCall(e, "get_open_instrument_positions")
CallSetOpenPosition == \E e \in EngineIds : RepositoryCall(e, "set_open_position")
CallSetBalance == \E e \in EngineIds : RepositoryCall(e, "set_balance")

ConcNext ==
    \/ CallGetBalance
    \/ CallRemoveInstrumentPositions
    \/ CallGetStatistics
    \/ CallSetStatistics
    \/ CallSetExitedPosition
    \/ CallGetOpenInstrumentPositions
    \/ CallSetOpenPosition
    \/ CallSetBalance

ConcSpec == ConcInit /\ [][ConcNext]_vars

----------------------------------------------------------------------------
(* Properties *)

StoredBalance(repo) == repo.current_balances[balance_id(EngineId)]

\* The open positions of an instrument, as a set.
OpenPositionsOf(repo, instrument) ==
    LET id == determine_instrument_id(EngineId, Exchange, instrument)
    IN IF id \in DOMAIN repo.open_positions
       THEN {repo.open_positions[id][k] : k \in DOMAIN repo.open_positions[id]}
       ELSE {}

FeesOf(fill) == fill.fees.exchange + fill.fees.slippage + fill.fees.network

IsCall(op) == last.op = op
OkFill == IsCall("update_from_fill") /\ last.status = "Ok"
OkEntryFill == OkFill /\ last.arg.decision \in {"Long", "Short"}
OkExitFill == OkFill /\ last.arg.decision \in {"CloseLong", "CloseShort"}

\* C1: whenever generate_order parses a suggest against the positions of the
\* instrument, the (close, open) pair is the one of the state-machine table:
\* no position -> (none, same-side entry); first position on the suggested side
\* -> (none, entry iff re_enter); first position on the opposite side ->
\* (CloseShort for a Long suggest / CloseLong for a Short suggest, entry on the
\* suggested side iff not only_close_opposite).
C1_ParseTable ==
    (IsCall("generate_order") /\ last.parsed # None) =>
        LET suggest == last.arg.suggest
            info == suggest.info
            long == suggest.variant = "SuggestLong"
            entry == Some(<<IF long THEN "Long" ELSE "Short", info>>)
            close == Some(<<IF long THEN "CloseShort" ELSE "CloseLong", info>>)
            same == IF long THEN "Buy" ELSE "Sell"
            current == IF last.positions = <<>> THEN "none" ELSE last.positions[1].side
            expected ==
                IF current = "none" THEN <<None, entry>>
                ELSE IF current = same
                     THEN <<None, IF info.re_enter THEN entry ELSE None>>
                     ELSE <<close, IF info.only_close_opposite THEN None ELSE entry>>
        IN last.parsed[1] = expected

\* C1 witness: a suggest against an opposite position gave a close and an entry.
C1_Witness ==
    /\ IsCall("generate_order")
    /\ last.parsed # None
    /\ last.positions # <<>>
    /\ last.parsed[1][1] # None
    /\ last.parsed[1][2] # None

\* C2: cash gate: generate_order for an instrument without open positions, with
\* the stored balance.available equal to 0, returns (None, None).
C2_CashGate ==
    (/\ IsCall("generate_order")
     /\ OpenPositionsOf(before, last.arg.instrument) = {}
     /\ StoredBalance(before).available = 0)
        => (last.status = "Ok" /\ last.out = <<None, None>>)

\* C2 witness: the gate has closed on a signal.
C2_Witness ==
    /\ IsCall("generate_order")
    /\ OpenPositionsOf(before, last.arg.instrument) = {}
    /\ StoredBalance(before).available = 0
    /\ last.out = <<None, None>>

\* C3: with balance.available equal to 0 and an open position on the signal's
\* instrument, generate_order returns no OrderEvent.
C3_NoOrderWithoutCash ==
    (/\ IsCall("generate_order")
     /\ OpenPositionsOf(before, last.arg.instrument) # {}
     /\ StoredBalance(before).available = 0)
        => last.out[2] = None

\* C4: a successful entry fill changes balance.available by
\* -(fill_value_gross + exchange + slippage + network fees) and leaves
\* balance.total unchanged.
C4_EntryDebit ==
    OkEntryFill =>
        /\ StoredBalance(repository).available - StoredBalance(before).available
              = -(last.arg.fill_value_gross + FeesOf(last.arg))
        /\ StoredBalance(repository).total = StoredBalance(before).total

\* C4 witness: an entry fill has succeeded.
C4_Witness ==
    /\ OkEntryFill
    /\ OpenPositionsOf(repository, last.arg.instrument) # {}

RealisedOf(position, fill) ==
    LET fees == position.enter_fees_total + FeesOf(fill)
    IN IF position.side = "Buy"
       THEN fill.fill_value_gross - position.enter_value_gross - fees
       ELSE position.enter_value_gross - fill.fill_value_gross - fees

RECURSIVE SumRealised(_, _)
SumRealised(positions, fill) ==
    IF positions = {} THEN 0
    ELSE LET p == CHOOSE q \in positions : TRUE
         IN RealisedOf(p, fill) + SumRealised(positions \ {p}, fill)

RECURSIVE SumReleased(_, _)
SumReleased(positions, fill) ==
    IF positions = {} THEN 0
    ELSE LET p == CHOOSE q \in positions : TRUE
         IN p.enter_value_gross + RealisedOf(p, fill) + p.enter_fees_total
              + SumReleased(positions \ {p}, fill)

\* C5: a successful exit fill changes balance.total by the sum of the realised
\* profit of the positions it closes, and balance.available by the sum of
\* enter_value_gross + realised_profit_loss + enter_fees_total over them, the
\* realised profit being exit value - enter value - all fees for a Buy position
\* and enter value - exit value - all fees for a Sell position.
C5_ExitCredit ==
    OkExitFill =>
        LET closed == OpenPositionsOf(before, last.arg.instrument)
        IN /\ StoredBalance(repository).total - StoredBalance(before).total
                = SumRealised(closed, last.arg)
           /\ StoredBalance(repository).available - StoredBalance(before).available
                = SumReleased(closed, last.arg)

\* C5 witness: one exit fill has closed two positions.
C5_Witness ==
    /\ OkExitFill
    /\ Cardinality(OpenPositionsOf(before, last.arg.instrument)) = 2

\* The exit fill that closes the single position of the latest entry fill, with
\* no change of the balance in between.
RoundTrip ==
    /\ OkExitFill
    /\ last_entry # None
    /\ last_entry[1].instrument = last.arg.instrument
    /\ Cardinality(OpenPositionsOf(before, last.arg.instrument)) = 1
    /\ \A p \in OpenPositionsOf(before, last.arg.instrument) :
          p.signal_id = last_entry[1].signal_id
    /\ StoredBalance(before).total = last_entry[1].balance_after.total
    /\ StoredBalance(before).available = last_entry[1].balance_after.available

\* The profit of a round trip, from its two fills.
RoundTripProfit(entry_fill, exit_fill) ==
    IF entry_fill.decision = "Long"
    THEN exit_fill.fill_value_gross - entry_fill.fill_value_gross
            - FeesOf(entry_fill) - FeesOf(exit_fill)
    ELSE entry_fill.fill_value_gross - exit_fill.fill_value_gross
            - FeesOf(entry_fill) - FeesOf(exit_fill)

\* C6: round-trip cash law: after an entry fill followed by the exit fill that
\* closes that single position, available and total have both changed by
\* exactly the realised profit, compared with the balance before the entry.
C6_RoundTrip ==
    RoundTrip =>
        LET profit == RoundTripProfit(last_entry[1].fill, last.arg)
            start == last_entry[1].balance_before
        IN /\ StoredBalance(repository).available - start.available = profit
           /\ StoredBalance(repository).total - start.total = profit

\* C6 witness: a long position entered at 100 and closed at 200, fees 3 a side.
C6_Witness ==
    /\ RoundTrip
    /\ RoundTripProfit(last_entry[1].fill, last.arg) = 94

EventKinds(events) == [i \in 1..Len(events) |-> events[i].kind]

\* C7: the events of a successful fill end with the only Balance event: an
\* entry fill yields [PositionNew, Balance], an exit fill that closes n
\* positions yields n PositionExit events followed by Balance.
C7_EventOrder ==
    OkFill =>
        LET kinds == EventKinds(last.out)
            n == Cardinality(OpenPositionsOf(before, last.arg.instrument))
        IN /\ kinds # <<>>
           /\ kinds[Len(kinds)] = "Balance"
           /\ \A i \in 1..(Len(kinds) - 1) : kinds[i] \in {"PositionNew", "PositionExit"}
           /\ last.arg.decision \in {"Long", "Short"} => kinds = <<"PositionNew", "Balance">>
           /\ last.arg.decision \in {"CloseLong", "CloseShort"} =>
                 /\ Len(kinds) = n + 1
                 /\ \A i \in 1..n : kinds[i] = "PositionExit"

\* C7 witness: an exit fill has returned two PositionExit events and a Balance.
C7_Witness ==
    /\ OkExitFill
    /\ Len(last.out) = 3

OppositeOpen(repo, fill) ==
    \E p \in OpenPositionsOf(repo, fill.instrument) :
        \/ (p.side = "Sell" /\ fill.decision = "Long")
        \/ (p.side = "Buy" /\ fill.decision = "Short")

C9_MarketKeepsBalance ==
    IsCall("update_from_market") =>
        /\ repository.current_balances = before.current_balances
        /\ repository.statistics = before.statistics
        /\ repository.closed_positions = before.closed_positions

\* C9 witness: a market event has revalued an open position.
C9_Witness ==
    /\ IsCall("update_from_market")
    /\ last.out # <<>>
    /\ repository # before

ExpectedUnrealised(p) ==
    IF p.side = "Buy"
    THEN p.current_value_gross - p.enter_value_gross - 2 * p.enter_fees_total
    ELSE p.enter_value_gross - p.current_value_gross - 2 * p.enter_fees_total

\* C10: after a price-bearing market event every open position of its
\* instrument has the mark-to-market profit of its side (Buy: current value -
\* enter value - 2 * enter fees; Sell: enter value - current value - 2 * enter
\* fees), and each returned PositionUpdate carries the value of the persisted
\* position.
C10_Unrealised ==
    (IsCall("update_from_market") /\ last.arg.kind \in {"Trade", "Candle"}) =>
        LET open == OpenPositionsOf(repository, last.arg.instrument)
        IN /\ \A p \in open : p.unrealised_profit_loss = ExpectedUnrealised(p)
           /\ Len(last.out) = Cardinality(open)
           /\ \A i \in 1..Len(last.out) :
                 \E p \in open :
                    /\ p.signal_id = last.out[i].signal_id
                    /\ p.unrealised_profit_loss = last.out[i].unrealised_profit_loss
           /\ \A p \in open : \E i \in 1..Len(last.out) : last.out[i].signal_id = p.signal_id

\* C10 witness: a Sell position has been revalued at a loss by a market event.
C10_Witness ==
    /\ IsCall("update_from_market")
    /\ last.arg.kind \in {"Trade", "Candle"}
    /\ \E p \in OpenPositionsOf(repository, last.arg.instrument) :
          /\ p.side = "Sell"
          /\ p.current_value_gross > p.enter_value_gross
          /\ p.unrealised_profit_loss < -(2 * p.enter_fees_total)

\* C11: after a price-bearing market event of price P every open position of
\* its instrument, Buy or Sell, has current_symbol_price = P and
\* current_value_gross = |quantity| * P.
C11_MarkedToPrice ==
    (IsCall("update_from_market") /\ last.arg.kind \in {"Trade", "Candle"}) =>
        \A p \in OpenPositionsOf(repository, last.arg.instrument) :
            /\ p.current_symbol_price = last.arg.price
            /\ p.current_value_gross = Abs(p.quantity) * last.arg.price

\* C11 witness: two positions of one instrument, one of them a Sell of
\* quantity -2, have been revalued by one event.
C11_Witness ==
    /\ IsCall("update_from_market")
    /\ last.arg.kind \in {"Trade", "Candle"}
    /\ Cardinality(OpenPositionsOf(repository, last.arg.instrument)) = 2
    /\ \E p \in OpenPositionsOf(repository, last.arg.instrument) :
          /\ p.side = "Sell"
          /\ p.quantity = -2
          /\ p.current_value_gross = 2 * last.arg.price

\* Every position the repository holds, open or exited.
AllPositions(repo) ==
    UNION {OpenPositionsOf(repo, i) : i \in Instruments}
        \cup {get_exited_positions(repo, EngineId)[k] :
                 k \in 1..Len(get_exited_positions(repo, EngineId))}

SignalIdsOf(positions) == {p.signal_id : p \in positions}

\* C13: a successful exit fill leaves no open position on its instrument,
\* appends every position that was open on it to the exited positions (the
\* list grows by exactly their number, its earlier elements kept), and leaves
\* the open positions of the other instruments as they were.
C13_ExitMovesPositions ==
    OkExitFill =>
        LET closed == OpenPositionsOf(before, last.arg.instrument)
            n == Cardinality(closed)
            old == get_exited_positions(before, EngineId)
            new == get_exited_positions(repository, EngineId)
        IN /\ OpenPositionsOf(repository, last.arg.instrument) = {}
           /\ Len(new) = Len(old) + n
           /\ SubSeq(new, 1, Len(old)) = old
           /\ {new[k].signal_id : k \in (Len(old) + 1)..Len(new)} = SignalIdsOf(closed)
           /\ \A k \in (Len(old) + 1)..Len(new) :
                 new[k].instrument_id
                    = determine_instrument_id(EngineId, Exchange, last.arg.instrument)
           /\ \A i \in Instruments \ {last.arg.instrument} :
                 OpenPositionsOf(repository, i) = OpenPositionsOf(before, i)

\* C13 witness: one exit fill has moved two positions to the exited positions.
C13_Witness ==
    /\ OkExitFill
    /\ Cardinality(OpenPositionsOf(before, last.arg.instrument)) = 2
    /\ Len(get_exited_positions(repository, EngineId)) = 2

\* C14: a successful exit fill that closes n positions has updated the stored
\* statistic of its market exactly n times, once per exited position, and has
\* left the statistics of every other market as they were.
C14_StatisticsPerExit ==
    OkExitFill =>
        LET closed == OpenPositionsOf(before, last.arg.instrument)
            market_id == MarketId_new(Exchange, last.arg.instrument)
            old == get_statistics(before, market_id)
            new == get_statistics(repository, market_id)
        IN /\ old.status = "Ok" /\ new.status = "Ok"
           /\ new.statistic.count = old.statistic.count + Cardinality(closed)
           /\ new.statistic.total_profit_loss
                = old.statistic.total_profit_loss + SumRealised(closed, last.arg)
           /\ \A m \in DOMAIN before.statistics \ {market_id} :
                 /\ m \in DOMAIN repository.statistics
                 /\ repository.statistics[m] = before.statistics[m]
           /\ DOMAIN repository.statistics = DOMAIN before.statistics

\* C14 witness: one exit fill has updated the statistic of its market twice,
\* with another market tracked.
C14_Witness ==
    /\ OkExitFill
    /\ Cardinality(DOMAIN repository.statistics) = 2
    /\ get_statistics(repository, MarketId_new(Exchange, last.arg.instrument)).statistic.count = 2

\* C15: an exit fill for an instrument without open position panics: the call
\* returns neither Ok nor an error, and the stored balance is as before.
C15_ExitWithoutPositionPanics ==
    (/\ IsCall("update_from_fill")
     /\ last.arg.decision \in {"CloseLong", "CloseShort"}
     /\ OpenPositionsOf(before, last.arg.instrument) = {})
        => /\ last.status = "panic"
           /\ repository.current_balances = before.current_balances

\* C15 witness: an exit fill has hit the unreachable branch while another
\* instrument had an open position.
C15_Witness ==
    /\ IsCall("update_from_fill")
    /\ last.arg.decision \in {"CloseLong", "CloseShort"}
    /\ last.status = "panic"
    /\ \E i \in Instruments : OpenPositionsOf(before, i) # {}

\* C16: after init with starting cash c and markets M, get_balance gives total
\* = c and available = c, get_statistics gives the initial statistic for every
\* market of M, and no position is open or exited.
C16_Bootstrap ==
    IsCall("init") =>
        LET c == last.arg[1]
            M == last.arg[2]
            got == get_balance(repository, EngineId)
        IN /\ got.status = "Ok"
           /\ got.balance.total = c
           /\ got.balance.available = c
           /\ \A m \in M :
                 LET s == get_statistics(repository, MarketId_new(Exchange, m))
                 IN s.status = "Ok" /\ s.statistic = Statistic_init
           /\ AllPositions(repository) = {}

\* C16 witness: an engine initialised with two markets and cash 400.
C16_Witness ==
    /\ IsCall("init")
    /\ Cardinality(last.arg[2]) = 2
    /\ last.arg[1] = 400

Range(seq) == {seq[j] : j \in 1..Len(seq)}

InstrumentIdOf(instrument) == determine_instrument_id(EngineId, Exchange, instrument)

AllInstrumentIds ==
    {determine_instrument_id(e, Exchange, i) : e \in EngineIds, i \in Instruments}

\* The positions a key space holds under the keys of an instrument.
RedisPositionsOf(store, instrument_id) ==
    {Position_from_str(store[k].data) :
        k \in {q \in DOMAIN store : \E id \in SignalIds : q = position_key(instrument_id, id)}}

\* The positions of an instrument in the in-memory backend.
MemPositionsOf(repo, instrument_id) ==
    IF instrument_id \in DOMAIN repo.open_positions
    THEN {repo.open_positions[instrument_id][k] : k \in DOMAIN repo.open_positions[instrument_id]}
    ELSE {}

\* C17: after the same set_open_position calls, get_open_instrument_positions
\* returns in the Redis backend, as in the in-memory backend, exactly the
\* positions stored under the instrument_id, and get_all_open_positions
\* returns exactly all the open positions stored.
C17_BackendsAgree ==
    (last.op \in {"new", "set_open_position"} /\ last.only_sets) =>
        /\ \A instrument \in Instruments :
              /\ \A v \in get_open_instrument_positions(repository, InstrumentIdOf(instrument)) :
                    Range(v) = MemPositionsOf(repository, InstrumentIdOf(instrument))
              /\ \A v \in Redis_get_open_instrument_positions(redis, InstrumentIdOf(instrument)) :
                    /\ Range(v) = RedisPositionsOf(redis, InstrumentIdOf(instrument))
                    /\ Range(v) = MemPositionsOf(repository, InstrumentIdOf(instrument))
        /\ \A v \in get_all_open_positions(repository) :
              Range(v) = UNION {MemPositionsOf(repository, id) : id \in AllInstrumentIds}
        /\ \A v \in Redis_get_all_open_positions(redis) :
              Range(v) = UNION {MemPositionsOf(repository, id) : id \in AllInstrumentIds}

\* C18: remove_instrument_positions removes every open position of the
\* instrument and returns exactly those positions, leaves the positions of the
\* other instruments untouched, and gives an empty result without error when
\* the instrument has no open position, in the in-memory and in the Redis
\* backend.
C18_RemoveInstrumentPositions ==
    last.op = "remove_instrument_positions" =>
        /\ last.status = "Ok"
        /\ MemPositionsOf(repository, last.arg) = {}
        /\ Range(last.out) = MemPositionsOf(before, last.arg)
        /\ Len(last.out) = Cardinality(MemPositionsOf(before, last.arg))
        /\ \A i \in Instruments :
              InstrumentIdOf(i) # last.arg =>
                 MemPositionsOf(repository, InstrumentIdOf(i))
                    = MemPositionsOf(before, InstrumentIdOf(i))
        /\ RedisPositionsOf(redis, last.arg) = {}
        /\ Range(last.redis_out) = RedisPositionsOf(last.redis_before, last.arg)
        /\ \A i \in Instruments :
              InstrumentIdOf(i) # last.arg =>
                 RedisPositionsOf(redis, InstrumentIdOf(i))
                    = RedisPositionsOf(last.redis_before, InstrumentIdOf(i))

CountOpen(repo) ==
    Cardinality({<<i, id>> \in Instruments \X SignalIds :
                    get_open_position(repo, InstrumentIdOf(i), id) # None})

\* C19: set_open_position is an idempotent upsert keyed by (instrument_id,
\* signal_id), in both backends: storing the position again changes nothing,
\* the key holds the position stored, every other key holds what it held, and
\* when the key existed the number of open positions is the same.
C19_IdempotentUpsert ==
    last.op = "set_open_position" =>
        LET position == last.arg
            key == position_key(position.instrument_id, position.signal_id)
        IN /\ set_open_position(repository, position) = repository
           /\ get_open_position(repository, position.instrument_id, position.signal_id)
                 = Some(position)
           /\ \A i \in Instruments, id \in SignalIds :
                 <<InstrumentIdOf(i), id>> # <<position.instrument_id, position.signal_id>> =>
                    get_open_position(repository, InstrumentIdOf(i), id)
                       = get_open_position(before, InstrumentIdOf(i), id)
           /\ get_open_position(before, position.instrument_id, position.signal_id) # None
                 => CountOpen(repository) = CountOpen(before)
           /\ Redis_set_open_position(redis, position) = redis
           /\ redis[key].type = "string"
           /\ Position_from_str(redis[key].data) = position
           /\ DOMAIN redis = DOMAIN last.redis_before \cup {key}
           /\ \A k \in DOMAIN last.redis_before \ {key} : redis[k] = last.redis_before[k]

\* C19 witness: a position has replaced a different one stored under its key,
\* next to a position under another signal_id of the same instrument.
C19_Witness ==
    /\ last.op = "set_open_position"
    /\ get_open_position(before, last.arg.instrument_id, last.arg.signal_id)
          \notin {None, Some(last.arg)}
    /\ Cardinality(MemPositionsOf(repository, last.arg.instrument_id)) = 2

\* C20: after any sequence of repository operations get_open_position gives,
\* for every (instrument_id, signal_id), the position most recently stored
\* under that key by set_open_position if it has not been removed since, and
\* None otherwise; what it gives carries the instrument_id and signal_id asked.
C20_GetReturnsLastSet ==
    last.op \in {"new", "set_open_position", "remove_position",
                 "remove_instrument_positions"} =>
        \A i \in Instruments, id \in SignalIds :
            LET got == get_open_position(repository, InstrumentIdOf(i), id)
            IN /\ got = IF StoredKey(InstrumentIdOf(i), id) \in DOMAIN stored
                        THEN Some(stored[StoredKey(InstrumentIdOf(i), id)])
                        ELSE None
               /\ got # None =>
                     /\ got[1].instrument_id = InstrumentIdOf(i)
                     /\ got[1].signal_id = id

\* C20 witness: one position has been removed with remove_position while
\* another one of the same instrument and one of the other instrument stay.
C20_Witness ==
    /\ last.op = "remove_position"
    /\ last.status = "Ok"
    /\ get_open_position(repository, last.arg[1], last.arg[2]) = None
    /\ MemPositionsOf(repository, last.arg[1]) # {}
    /\ CountOpen(repository) = 2

\* C21: remove_position fails with DeleteError exactly when no open position
\* is stored under (instrument_id, signal_id), and then leaves the repository
\* unchanged; otherwise it returns the position stored, which
\* get_open_position no longer finds, while every other open position stays.
C21_RemovePosition ==
    last.op = "remove_position" =>
        LET was == get_open_position(before, last.arg[1], last.arg[2])
        IN /\ last.status = "DeleteError" <=> was = None
           /\ last.status \in {"Ok", "DeleteError"}
           /\ last.status = "DeleteError" => repository = before
           /\ last.status = "Ok" =>
                 /\ last.out = was
                 /\ get_open_position(repository, last.arg[1], last.arg[2]) = None
                 /\ \A i \in Instruments, id \in SignalIds :
                       <<InstrumentIdOf(i), id>> # last.arg =>
                          get_open_position(repository, InstrumentIdOf(i), id)
                             = get_open_position(before, InstrumentIdOf(i), id)

\* C21 witness: remove_position has failed with DeleteError on a signal_id
\* unknown under an instrument that holds another position.
C21_Witness ==
    /\ last.op = "remove_position"
    /\ last.status = "DeleteError"
    /\ MemPositionsOf(before, last.arg[1]) # {}

\* The instrument ids of the markets of an engine.
ListedInstrumentIds(engine_id, markets) ==
    {determine_instrument_id(engine_id, markets[j].exchange, markets[j].instrument) :
        j \in 1..Len(markets)}

\* The open positions that were set and not removed, of a set of instrument ids.
StoredPositionsOf(instrument_ids) ==
    {stored[k] : k \in {q \in DOMAIN stored : q[1] \in instrument_ids}}

\* The in-memory half of C22.
C22_InMemoryMarketsPositions ==
    /\ last.op = "get_open_markets_positions" =>
          LET listed == ListedInstrumentIds(last.arg[1], last.arg[2])
          IN /\ Range(last.out) = StoredPositionsOf(listed)
             /\ Len(last.out) = Cardinality(StoredPositionsOf(listed))
             /\ Range(last.out) = UNION {MemPositionsOf(repository, id) : id \in listed}
    /\ \A v \in get_all_open_positions(repository) :
          /\ Range(v) = StoredPositionsOf(AllInstrumentIds)
          /\ Len(v) = Cardinality(StoredPositionsOf(AllInstrumentIds))

\* C22: get_open_markets_positions(engine_id, markets) returns, in the
\* in-memory and in the Redis backend, exactly the open positions of the
\* listed markets of that engine, each once, none of another market or of
\* another engine; get_all_open_positions returns every open position.
C22_MarketsPositions ==
    /\ C22_InMemoryMarketsPositions
    /\ last.op = "get_open_markets_positions" =>
          LET listed == ListedInstrumentIds(last.arg[1], last.arg[2])
          IN /\ Range(last.redis_out) = StoredPositionsOf(listed)
             /\ Len(last.redis_out) = Cardinality(StoredPositionsOf(listed))

\* The in-memory half of C23.
C23_InMemoryExitedPositions ==
    /\ last.op = "new" =>
          \A e \in EngineIds : get_exited_positions(repository, e) = <<>>
    /\ last.op = "set_exited_position" =>
          /\ get_exited_positions(repository, last.arg[1])
                = Append(get_exited_positions(before, last.arg[1]), last.arg[2])
          /\ \A e \in EngineIds \ {last.arg[1]} :
                get_exited_positions(repository, e) = get_exited_positions(before, e)
    /\ last.op \notin {"new", "set_exited_position"} =>
          \A e \in EngineIds :
             get_exited_positions(repository, e) = get_exited_positions(before, e)

\* C23: set_exited_position(engine_id, p) appends p to the exited list of
\* that engine only, and get_exited_positions(engine_id) returns every
\* position appended for the engine exactly once (the empty list when none
\* was appended), in the in-memory and in the Redis backend.
C23_ExitedPositions ==
    /\ C23_InMemoryExitedPositions
    /\ \A e \in EngineIds :
          \A r \in Redis_get_exited_positions(redis, e) :
             /\ r.status = "Ok"
             /\ Len(r.out) = Len(get_exited_positions(repository, e))
             /\ \A p \in RepoExitedPositions :
                   Cardinality({j \in 1..Len(r.out) : r.out[j] = p})
                      = Cardinality({j \in 1..Len(get_exited_positions(repository, e)) :
                                        get_exited_positions(repository, e)[j] = p})

\* The in-memory half of C24.
C24_InMemoryBalance ==
    /\ last.op = "new" =>
          \A e \in EngineIds :
             get_balance(repository, e).status = "ExpectedDataNotPresentError"
    /\ last.op = "set_balance" =>
          /\ get_balance(repository, last.arg[1]) = [status |-> "Ok", balance |-> last.arg[2]]
          /\ \A e \in EngineIds \ {last.arg[1]} :
                get_balance(repository, e) = get_balance(before, e)
    /\ last.op \notin {"new", "set_balance"} =>
          \A e \in EngineIds : get_balance(repository, e) = get_balance(before, e)

\* C24: get_balance(engine_id) fails with ExpectedDataNotPresent when no
\* balance was set for the engine, and gives otherwise the balance of the last
\* set_balance of that engine, whatever was set for other engines, in the
\* in-memory and in the Redis backend.
C24_Balance ==
    /\ C24_InMemoryBalance
    /\ \A e \in EngineIds : Redis_get_balance(redis, e) = get_balance(repository, e)

\* C25: allocate_order gives a Long order the quantity +size * strength, a
\* Short order -size * strength, where size is the default order size for the
\* close of the order, and an exit order minus the sum of the quantities of the
\* open positions given to it, whatever the strength; every other field of the
\* order is kept.
C25_AllocatorDispatch ==
    last.op = "allocate_order" =>
        LET self == last.arg[1]
            order == last.arg[2]
            positions == last.arg[3]
            strength == last.arg[4].strength
            size == default_order_size(self.default_order_value, order.market_meta.close)
        IN /\ order.decision = "Long" => last.out.quantity = size * strength
           /\ order.decision = "Short" => last.out.quantity = -(size * strength)
           /\ is_exit(order.decision) =>
                 last.out.quantity + OrderScale * SumQuantity(positions) = 0
           /\ [last.out EXCEPT !.quantity = 0] = order

C25_Witness ==
    /\ last.op = "allocate_order"
    /\ last.arg[2].decision = "Short"
    /\ last.arg[4].strength = 2
    /\ last.arg[1].default_order_value = 1000
    /\ last.arg[2].market_meta.close = 300
    /\ last.out.quantity = -66666

\* C26: for a default_order_value v and a close c, the size of the default
\* allocator, a number k of ten-thousandths, satisfies size * c <= v and
\* v / c - size < 1 / 10000, and is v / c when v / c is a whole number of
\* ten-thousandths.
C26_AllocatorRounding ==
    (last.op = "allocate_order" /\ last.arg[2].decision = "Long") =>
        LET v == last.arg[1].default_order_value
            c == last.arg[2].market_meta.close
            k == last.out.quantity \div last.arg[4].strength
        IN /\ k * last.arg[4].strength = last.out.quantity
           /\ k * c <= v * OrderScale
           /\ v * OrderScale - k * c < c
           /\ (v * OrderScale) % c = 0 => k * c = v * OrderScale

\* C27: evaluate_order of the default risk evaluator returns Some(order) with
\* order_type Market and every other field as given, for every order and
\* repository, and leaves the repository as it was.
C27_RiskNeverDrops ==
    last.op = "evaluate_order" =>
        /\ last.out = Some([last.arg EXCEPT !.order_type = "Market"])
        /\ repository = before

C27_Witness ==
    /\ last.op = "evaluate_order"
    /\ last.arg.order_type = "Limit"
    /\ last.arg.decision = "CloseShort"
    /\ last.out # None
    /\ repository # InMemoryRepository_new

\* C28: generate_exit_instrument_order gives one order for every open
\* position of the instrument of the token and no other: CloseLong for a Buy
\* position, CloseShort for a Sell position, the quantity that flattens the
\* position, order_type Market, the signal_id, exchange and instrument of the
\* token; with no open position it gives the empty list and no error; the
\* repository is left as it was.
C28_ExitInstrumentOrder ==
    last.op = "generate_exit_instrument_order" =>
        LET open == OpenPositionsOf(before, last.arg.force_exit.instrument)
        IN /\ last.status = "Ok"
           /\ repository = before
           /\ Len(last.out) = Cardinality(open)
           /\ \A p \in open :
                 \E j \in 1..Len(last.out) :
                    /\ last.out[j].decision
                          = IF p.side = "Buy" THEN "CloseLong" ELSE "CloseShort"
                    /\ last.out[j].quantity + OrderScale * p.quantity = 0
                    /\ last.out[j].market_meta.close = p.current_symbol_price
           /\ \A j \in 1..Len(last.out) :
                 /\ last.out[j].order_type = "Market"
                 /\ last.out[j].signal_id = last.arg.signal_id
                 /\ last.out[j].exchange = last.arg.force_exit.exchange
                 /\ last.out[j].instrument = last.arg.force_exit.instrument
                 /\ \E p \in open :
                       last.out[j].quantity + OrderScale * p.quantity = 0

C28_Witness ==
    /\ last.op = "generate_exit_instrument_order"
    /\ Len(last.out) = 2
    /\ last.out[1].quantity # last.out[2].quantity
    /\ last.out[1].decision = "CloseLong"
    /\ Cardinality(OpenPositionsOf(before, last.arg.force_exit.instrument)) = 2

\* C29: an order returned by generate_order carries the signal_id, exchange,
\* instrument and market_meta of the signal, the decision Long for a
\* SuggestLong and Short for a SuggestShort, and order_type Market; a forced
\* exit token returned with it carries the signal_id, exchange and instrument
\* of the signal; a SuggestShort with only_close_opposite false against open
\* Buy positions returns both a token and a Short order.
C29_OrderFromSignal ==
    (IsCall("generate_order") /\ last.status = "Ok") =>
        LET signal == last.arg
            token == last.out[1]
            order == last.out[2]
        IN /\ order # None =>
                 /\ order[1].signal_id = signal.signal_id
                 /\ order[1].exchange = signal.exchange
                 /\ order[1].instrument = signal.instrument
                 /\ order[1].market_meta = signal.market_meta
                 /\ order[1].decision = IF signal.suggest.variant = "SuggestLong"
                                        THEN "Long" ELSE "Short"
                 /\ order[1].order_type = "Market"
           /\ token # None =>
                 /\ token[1].signal_id = signal.signal_id
                 /\ token[1].force_exit.exchange = signal.exchange
                 /\ token[1].force_exit.instrument = signal.instrument
           /\ (/\ last.positions # <<>>
               /\ \A j \in 1..Len(last.positions) : last.positions[j].side = "Buy"
               /\ signal.suggest.variant = "SuggestShort"
               /\ ~signal.suggest.info.only_close_opposite)
                 => (token # None /\ order # None /\ order[1].decision = "Short")

C29_Witness ==
    /\ IsCall("generate_order")
    /\ last.status = "Ok"
    /\ last.positions # <<>>
    /\ last.positions[1].side = "Buy"
    /\ last.arg.suggest.variant = "SuggestShort"
    /\ ~last.arg.suggest.info.only_close_opposite
    /\ last.out[1] # None
    /\ last.out[2] # None
    /\ last.out[2][1].quantity < 0

\* The instrument id of the signal, fill or market event of the last call.
InstrumentIdOfCall ==
    IF IsCall("generate_exit_instrument_order")
    THEN determine_instrument_id(EngineId, last.arg.force_exit.exchange,
                                 last.arg.force_exit.instrument)
    ELSE determine_instrument_id(EngineId, last.arg.exchange, last.arg.instrument)

\* C30: a call of the engine ends in the same repository (open positions,
\* exited positions, balance, statistics) and returns the same events
\* whatever order the backend gives the positions of the instrument in.
C30_Deterministic ==
    (last.op \in {"generate_order", "generate_exit_instrument_order",
                  "update_from_market", "update_from_fill"}) =>
        \A positions \in get_open_instrument_positions(before, InstrumentIdOfCall) :
            LET r == CASE IsCall("generate_order") ->
                            generate_order(before, last.arg, positions)
                       [] IsCall("generate_exit_instrument_order") ->
                            generate_exit_instrument_order(before, last.arg, positions)
                       [] IsCall("update_from_market") ->
                            update_from_market(before, last.arg, positions)
                       [] OTHER ->
                            update_from_fill(before, last.arg, positions)
            IN /\ r.status = last.status
               /\ r.repo = repository
               /\ r.out = last.out

\* C31: update_from_market saves exactly the positions whose update gave a
\* diff and returns exactly those diffs: for an event with a price, one
\* PositionUpdate for every open position of the instrument of the event, each
\* the diff of the position as saved; for an event without a price the empty
\* list, with nothing written; the open positions of the other instruments
\* are never modified.
C31_MarketUpdatesAndFrame ==
    IsCall("update_from_market") =>
        LET open == OpenPositionsOf(before, last.arg.instrument)
        IN /\ last.status = "Ok"
           /\ market_price(last.arg) = None => (last.out = <<>> /\ repository = before)
           /\ market_price(last.arg) # None =>
                 /\ Len(last.out) = Cardinality(open)
                 /\ OpenPositionsOf(repository, last.arg.instrument)
                       = {Position_update(p, last.arg).position : p \in open}
                 /\ {last.out[j] : j \in 1..Len(last.out)}
                       = {Position_update(p, last.arg).update[1] : p \in open}
           /\ \A i \in Instruments \ {last.arg.instrument} :
                 OpenPositionsOf(repository, i) = OpenPositionsOf(before, i)

C31_Witness ==
    /\ IsCall("update_from_market")
    /\ market_price(last.arg) # None
    /\ Len(last.out) = 1
    /\ OpenPositionsOf(repository, last.arg.instrument)
          # OpenPositionsOf(before, last.arg.instrument)
    /\ \E i \in Instruments \ {last.arg.instrument} : OpenPositionsOf(before, i) # {}

RECURSIVE SumEntered(_)
SumEntered(positions) ==
    IF positions = {} THEN 0
    ELSE LET p == CHOOSE q \in positions : TRUE
         IN p.enter_value_gross + p.enter_fees_total + SumEntered(positions \ {p})

BalanceIdentity(repo) ==
    StoredBalance(repo).total - StoredBalance(repo).available
        = SumEntered(UNION {OpenPositionsOf(repo, i) : i \in Instruments})

\* C33: balance identity: after bootstrap, and after every successful
\* update_from_fill or update_from_market call made in a state where it held,
\* total - available equals the sum of enter_value_gross + enter_fees_total
\* over the open positions.
C33_BalanceIdentity ==
    /\ last.op = "init" => BalanceIdentity(repository)
    /\ (/\ last.op \in {"update_from_fill", "update_from_market"}
        /\ last.status = "Ok"
        /\ BalanceIdentity(before)) => BalanceIdentity(repository)

\* C34: position conservation over an update_from_fill call that returns Ok
\* or an error: every position that was open before the call is afterwards
\* either still open or newly appended to the exited list, and not both; the
\* exited list keeps what it held; the position of a successful entry fill is
\* open.
C34_PositionConservation ==
    (IsCall("update_from_fill") /\ last.status # "panic") =>
        LET exited_before == get_exited_positions(before, EngineId)
            exited_after == get_exited_positions(repository, EngineId)
        IN /\ Len(exited_before) <= Len(exited_after)
           /\ SubSeq(exited_after, 1, Len(exited_before)) = exited_before
           /\ \A i \in Instruments : \A p \in OpenPositionsOf(before, i) :
                 LET still_open == {q \in OpenPositionsOf(repository, i) :
                                       q.signal_id = p.signal_id}
                     exited_now == {k \in (Len(exited_before) + 1)..Len(exited_after) :
                                       /\ exited_after[k].instrument_id = p.instrument_id
                                       /\ exited_after[k].signal_id = p.signal_id}
                 IN Cardinality(still_open) + Cardinality(exited_now) = 1
           /\ OkEntryFill =>
                 \E q \in OpenPositionsOf(repository, last.arg.instrument) :
                     q.signal_id = last.arg.signal_id

\* C35: forced-exit protocol: when the orders generate_exit_instrument_order
\* returned are filled and their fills delivered to update_from_fill one after
\* another, no delivery reaches the fatal branch of an exit fill for an
\* instrument without open position.
C35_ForcedExitProtocol ==
    (IsCall("update_from_fill") /\ is_exit(last.arg.decision)) => last.status # "panic"

\* C38: while no signal had re_enter set, and every order of a signal is filled
\* and applied before the next signal, an instrument has at most one open
\* position.
C38_SinglePosition ==
    ~engine_loop.re_enter =>
        \A i \in Instruments : Cardinality(OpenPositionsOf(repository, i)) <= 1

\* A forced exit followed by the entry of the opposite side: the only open
\* position of the instrument is the new one.
C38_Witness ==
    /\ ~engine_loop.re_enter
    /\ engine_loop.signals >= 2
    /\ engine_loop.queue = <<>>
    /\ OkEntryFill
    /\ before # repository
    /\ get_exited_positions(repository, EngineId) # <<>>
    /\ Cardinality(OpenPositionsOf(repository, last.arg.instrument)) = 1

\* C36: every successful CloseLong fill raises balance.available by exactly
\* fill_value_gross minus the fees of the fill, whatever the number of Buy
\* positions open on the instrument.
C36_CloseLongCash ==
    (/\ OkExitFill
     /\ last.arg.decision = "CloseLong"
     /\ \A p \in OpenPositionsOf(before, last.arg.instrument) : p.side = "Buy") =>
        StoredBalance(repository).available - StoredBalance(before).available
            = last.arg.fill_value_gross - FeesOf(last.arg)

\* C37: generate_order and generate_exit_instrument_order are read-only: open
\* positions, exited positions, balances and statistics are after the call
\* what they were before it, whether it returns orders, (None, None), an empty
\* list or an error.
C37_GeneratorsReadOnly ==
    (IsCall("generate_order") \/ IsCall("generate_exit_instrument_order")) =>
        /\ repository.open_positions = before.open_positions
        /\ repository.closed_positions = before.closed_positions
        /\ repository.current_balances = before.current_balances
        /\ repository.statistics = before.statistics

\* generate_exit_instrument_order has returned an order for each of two open
\* positions, which are still open.
C37_Witness ==
    /\ IsCall("generate_exit_instrument_order")
    /\ Len(last.out) = 2
    /\ Cardinality(OpenPositionsOf(repository, last.arg.force_exit.instrument)) = 2

\* C39: update_from_fill never returns CannotEnterPositionWithExitFill or
\* CannotExitPositionWithEntryFill.
C39_NoPositionDecisionError ==
    IsCall("update_from_fill") =>
        last.status \notin {"CannotEnterPositionWithExitFill",
                            "CannotExitPositionWithEntryFill"}

\* Both Position::enter and Position::exit have been called with success: a
\* CloseShort fill has closed a Sell position while the other instrument
\* holds an open position.
C39_Witness ==
    /\ OkExitFill
    /\ last.arg.decision = "CloseShort"
    /\ \A p \in OpenPositionsOf(before, last.arg.instrument) : p.side = "Sell"
    /\ \E i \in Instruments \ {last.arg.instrument} : OpenPositionsOf(repository, i) # {}

\* The repositories the two fills leave behind when one engine's
\* update_from_fill runs to its return before the other's starts.
SequentialResults ==
    LET f1 == tasks["engine_1"].fill
        f2 == tasks["engine_2"].fill
    IN {r2.repo : r2 \in UNION {sequential_fill(r1.repo, "engine_2", f2) :
                                   r1 \in sequential_fill(before, "engine_1", f1)}}
       \cup
       {r1.repo : r1 \in UNION {sequential_fill(r2.repo, "engine_1", f1) :
                                   r2 \in sequential_fill(before, "engine_2", f2)}}

BothReturned == \A e \in EngineIds : tasks[e].pc = "done"

\* C40: two engines with distinct ids on one backend that serializes the
\* repository calls: whatever the interleaving of the calls of their
\* update_from_fill, once both have returned the balances, open positions,
\* exited lists and statistics are those of one engine's call run before the
\* other's (no lost update).
C40_Serializable ==
    (tasks # <<>> /\ BothReturned) => repository \in SequentialResults

====
